---------------------------- MODULE Spec2Model ----------------------------
(***************************************************************************)
(* Model of the narrated-video pipeline of HackEmory-backend: the segment  *)
(* synthesizers, the timeline builders (concatenation, per-clip probing,   *)
(* drift reconciliation) and the caption/overlay compositors.              *)
(*                                                                         *)
(* Times are Python floats in the code.  Here a time is an integer number  *)
(* of thousandths of a second, and every float operation rounds its exact  *)
(* result to the nearest value with at most Precision significant decimal  *)
(* digits (ties to even), the way an IEEE operation rounds to 53 bits.     *)
(***************************************************************************)
EXTENDS Integers, Sequences, FiniteSets, TLC

VARIABLES
    pipeline,        \* "quiz" (generate_quiz_video) or "dialogue"
    background,      \* background_video: the path the caller gave
    selected_background, \* the background path handed to the compositor
    transcripts,     \* transcript_data["transcripts"]: the script lines
    pc,              \* the step of the run
    idx,             \* loop position of the running for-loop (1-based)
    audio_segments,  \* the clip descriptors built by the synthesizer
    returned,        \* TRUE once the synthesizer has returned audio_segments
    tts_calls,       \* indices passed to client.text_to_speech.convert, in order
    files,           \* the files that exist on disk
    manifest,        \* the lines written to the ffmpeg concat file list
    timings,         \* the interval list under construction / returned
    current_time,    \* accumulated time; total_duration once returned
    actual_duration, \* the probed duration of the concatenated file, or NoValue
    rescaled,        \* TRUE iff the drift branch ran
    probes,          \* the durations ffprobe printed for clips: [index, raw]
    steps,           \* the pipeline steps started so far, in order
    character_images,  \* peter_images / character_images: key -> image path
    character_enables, \* peter_enables / character_enables: key -> windows
    assets,          \* the character images os.path.exists found
    caption_filters, \* the drawtext filters, in order
    filter_parts,    \* the filters of filter_complex, in order
    render_inputs,   \* the -i arguments of the render command, in order
    stderr,          \* result.stderr of the external tool that failed, or ""
    error,           \* the exception that ended the run, or None
    pause_duration,  \* the pause_duration argument of the quiz builder
    options_duration, \* the options_duration argument of the quiz builder
    wrap_input,      \* the caption passed to wrap_caption_text
    wrapped_text,    \* what wrap_caption_text returned for it
    subtopics,       \* the subtopic_title of each subtopic of a batch, in order
    variant,         \* which batch function runs: "list" or "collection"
    uploaded,        \* the add_video calls of the batch, in order
    results,         \* the results list of the batch function
    retry_count,     \* retry_count of extract_audio_from_youtube's polling loop
    status,          \* status_response.get("status") of the latest check, or None
    status_checks,   \* the GET /status/{uid} requests issued so far
    download_requests, \* the GET /download/{uid} requests issued so far
    poll_pc,         \* the position of extract_audio_from_youtube
    runs,            \* concurrent runs of generate_quiz_video: run id -> state
    shared_files     \* the files those runs share: [dir, file, content]

vars == <<retry_count, status, status_checks, download_requests, poll_pc, subtopics, variant, uploaded, results, wrap_input, wrapped_text, pause_duration, options_duration, pipeline, background, selected_background, transcripts, pc, idx, audio_segments, returned, tts_calls,
          files, manifest, timings, current_time, actual_duration, rescaled,
          probes, steps, assets, character_images, character_enables,
          caption_filters, filter_parts, render_inputs, stderr, error,
          runs, shared_files>>

polling_vars == <<retry_count, status, status_checks, download_requests, poll_pc>>

caller_vars == <<pause_duration, options_duration>>

wrap_vars == <<wrap_input, wrapped_text>>

batch_vars == <<subtopics, variant, uploaded, results>>

concurrent_vars == <<runs, shared_files>>

compositor_vars == <<assets, character_images, character_enables, caption_filters,
                     filter_parts, render_inputs>>

---------------------------------------------------------------------------
(* Bounds of the model *)

\* significant decimal digits kept by a float operation
Precision == 3

\* longest script drawn by Init (the end-to-end example script is added to it)
MaxLines == 2

(* Program constants, in thousandths of a second *)

\* thousandths per second: the unit of every time below
Milli == 1000

\* duration = raw_duration + 0.05
PAD == 50

\* if duration_diff > 0.5
DRIFT_TOLERANCE == 500

\* pause_duration=2.0: the default, and what generate_quiz_video passes
PAUSE_DURATION == 2000

\* options_duration=5.0: the default, and what generate_quiz_video passes
OPTIONS_DURATION == 5000

NoValue == -1

---------------------------------------------------------------------------
(* Python float arithmetic *)

RECURSIVE Pow10(_)
Pow10(k) == IF k = 0 THEN 1 ELSE 10 * Pow10(k - 1)

\* the spacing of representable values around num/den: 10^k for the least k
\* with num/den < 10^(Precision+k)
RECURSIVE Quantum(_, _, _)
Quantum(num, den, k) ==
    IF num < den * Pow10(Precision + k) THEN Pow10(k) ELSE Quantum(num, den, k + 1)

\* num/den (num >= 0, den > 0) rounded to the nearest representable value,
\* ties to the even neighbour
FRound(num, den) ==
    LET q   == Quantum(num, den, 0)
        lo  == num \div (den * q)
        rem == num - lo * den * q
    IN  IF 2 * rem > den * q THEN (lo + 1) * q
        ELSE IF 2 * rem < den * q THEN lo * q
        ELSE IF lo % 2 = 0 THEN lo * q ELSE (lo + 1) * q

FAdd(a, b) == FRound(a + b, 1)

FSub(a, b) == IF a >= b THEN FRound(a - b, 1) ELSE 0 - FRound(b - a, 1)

FMul(a, b) == FRound(a * b, Milli)

FDiv(a, b) == FRound(a * Milli, b)

Abs(x) == IF x < 0 THEN 0 - x ELSE x

\* seq[-1]
Last(seq) == seq[Len(seq)]

\* the elements of a list
Range(seq) == { seq[i] : i \in 1..Len(seq) }

\* dict.get(key, default)
Get(d, key, default) == IF key \in DOMAIN d THEN d[key] ELSE default

---------------------------------------------------------------------------
(* wrap_caption_text: textwrap.wrap(text, width=32) with the defaults of     *)
(* textwrap.TextWrapper (break_long_words, break_on_hyphens,                 *)
(* drop_whitespace, replace_whitespace), on texts without "--" and tabs      *)

\* max_chars=32
MaxChars == 32

\* n copies of character c
Repeat(c, n) == [k \in 1..n |-> c]

\* "".join(chunks)
RECURSIVE Concat(_)
Concat(chunks) ==
    IF chunks = << >> THEN << >> ELSE Head(chunks) \o Concat(Tail(chunks))

\* sep.join(lines)
RECURSIVE Join(_, _)
Join(lines, sep) ==
    IF lines = << >> THEN << >>
    ELSE IF Len(lines) = 1 THEN lines[1]
    ELSE lines[1] \o <<sep>> \o Join(Tail(lines), sep)

IsSpace(c) == c \in {" ", "\n"}

\* a letter in the sense of the word-separator pattern, among the characters
\* the captions are made of
IsLetter(c) == c \notin {" ", "\n", "-", "[", "]", ")"}

\* replace_whitespace: every whitespace character becomes a space
MungeWhitespace(text) ==
    [k \in 1..Len(text) |-> IF IsSpace(text[k]) THEN " " ELSE text[k]]

\* chunk.strip() == ''
IsBlank(chunk) == \A k \in 1..Len(chunk) : IsSpace(chunk[k])

\* the word-separator pattern ends a chunk after text[i]: where whitespace
\* meets a word, and after the hyphen of a hyphenated word (two letters, or
\* letter-hyphen-letter, before it; letter, optional hyphen, letter after it)
BreakAfter(text, i) ==
    LET at(k) == IF k \in 1..Len(text) THEN text[k] ELSE " "
    IN  \/ IsSpace(text[i]) # IsSpace(text[i + 1])
        \/ /\ text[i] = "-"
           /\ \/ IsLetter(at(i - 1)) /\ IsLetter(at(i - 2))
              \/ IsLetter(at(i - 1)) /\ at(i - 2) = "-" /\ IsLetter(at(i - 3))
           /\ IsLetter(at(i + 1))
           /\ \/ IsLetter(at(i + 2))
              \/ at(i + 2) = "-" /\ IsLetter(at(i + 3))

\* TextWrapper._split: the chunks of the text, in order
SplitChunks(text) ==
    LET ends   == { i \in 1..Len(text) : i = Len(text) \/ BreakAfter(text, i) }
        end(k) == CHOOSE e \in ends : Cardinality({ x \in ends : x <= e }) = k
    IN  [k \in 1..Cardinality(ends) |->
            SubSeq(text, (IF k = 1 THEN 0 ELSE end(k - 1)) + 1, end(k))]

\* chunk.rfind('-', 0, space_left), 1-based; 0 when there is none
RFindHyphen(chunk, k) ==
    LET found == { i \in 1..k : i <= Len(chunk) /\ chunk[i] = "-" }
    IN  IF found = {} THEN 0 ELSE CHOOSE i \in found : \A j \in found : j <= i

\* faulty variant, used to test the properties: a chunk longer than the
\* width is never cut and is put on a line of its own
LongWordCut_Never(chunk, space_left) ==
    IF space_left = MaxChars THEN Len(chunk) ELSE 0

\* TextWrapper._handle_long_word: how many characters of a chunk longer than
\* the width go on the current line
LongWordCut(chunk, space_left) ==
    LET hyphen == RFindHyphen(chunk, space_left)
    IN  IF /\ Len(chunk) > space_left
           /\ hyphen > 1
           /\ \E k \in 1..(hyphen - 1) : chunk[k] # "-"
        THEN hyphen
        ELSE space_left

\* the chunks that fit on the current line: the while loop of _wrap_chunks
RECURSIVE FillLine(_, _, _, _)
FillLine(chunks, cur_line, cur_len, width) ==
    IF chunks # << >> /\ cur_len + Len(Head(chunks)) <= width
    THEN FillLine(Tail(chunks), Append(cur_line, Head(chunks)),
                  cur_len + Len(Head(chunks)), width)
    ELSE [cur_line |-> cur_line, cur_len |-> cur_len, chunks |-> chunks]

\* TextWrapper._wrap_chunks: the lines built from the chunks
RECURSIVE WrapChunks(_, _, _)
WrapChunks(chunks, lines, width) ==
    IF chunks = << >> THEN lines
    ELSE LET kept   == IF IsBlank(Head(chunks)) /\ lines # << >>
                       THEN Tail(chunks) ELSE chunks
             filled == FillLine(kept, << >>, 0, width)
             long   == filled.chunks # << >> /\ Len(Head(filled.chunks)) > width
             cut    == IF long
                       THEN LongWordCut(Head(filled.chunks), width - filled.cur_len)
                       ELSE 0
             line   == IF long
                       THEN Append(filled.cur_line,
                                   SubSeq(Head(filled.chunks), 1, cut))
                       ELSE filled.cur_line
             rest   == IF long
                       THEN <<SubSeq(Head(filled.chunks), cut + 1,
                                     Len(Head(filled.chunks)))>>
                                \o Tail(filled.chunks)
                       ELSE filled.chunks
             kept_line == IF line # << >> /\ IsBlank(Last(line))
                          THEN SubSeq(line, 1, Len(line) - 1) ELSE line
         IN  WrapChunks(rest,
                        IF kept_line # << >>
                        THEN Append(lines, Concat(kept_line)) ELSE lines,
                        width)

\* textwrap.wrap(text, width=width)
Wrap(text, width) ==
    WrapChunks(SplitChunks(MungeWhitespace(text)), << >>, width)

\* "\n".join(wrapped_lines) if wrapped_lines else text
wrap_caption_text(text) ==
    LET wrapped_lines == Wrap(text, MaxChars)
    IN  IF wrapped_lines # << >> THEN Join(wrapped_lines, "\n") ELSE text

---------------------------------------------------------------------------
(* extract_audio_from_youtube: the status-polling loop *)

\* max_retries = 60: 5 minutes of 5 second intervals
max_retries == 60

\* status == "READY" or status == "DONE"
ReadyStatuses == {"READY", "DONE"}

\* status == "YOUTUBE-ERROR" or status == "CANCELED"
FailedStatuses == {"YOUTUBE-ERROR", "CANCELED"}

\* what status_response.get("status") can be: the four statuses the loop
\* names, a status it does not name, and None for a response without one
Statuses == ReadyStatuses \cup FailedStatuses \cup {"PENDING", "None"}

\* faulty variant, used to test the properties: one iteration too many
LoopCondition_Inclusive(count) == count <= max_retries

\* while retry_count < max_retries
LoopCondition(count) == count < max_retries

\* extract_audio_from_youtube has not been called
PollingIdle ==
    /\ retry_count = 0
    /\ status = "None"
    /\ status_checks = 0
    /\ download_requests = 0
    /\ poll_pc = "start"

---------------------------------------------------------------------------
(* Inputs *)

\* the script lines convert_quiz_to_transcript_format produces, and one line
\* with neither speaker nor emotion whose bracketed caption carries is_options
QuizLines ==
    { [caption |-> <<"H", "i">>, speaker |-> "PETER", emotion |-> "excited"],
      [caption |-> <<"[", "p", "]">>, speaker |-> "PETER", emotion |-> "teaching"],
      [caption |-> <<"A", ")">>, speaker |-> "PETER", emotion |-> "teaching",
       is_options |-> TRUE],
      [caption |-> <<"[", "o", "]">>, is_options |-> TRUE] }

\* dialogue script lines: the two characters, a line without emotion, and a
\* line whose speaker is not spelled the way the overlay grouping expects
DialogueLines ==
    { [caption |-> <<"H", "i">>, speaker |-> "PETER", emotion |-> "excited"],
      [caption |-> <<"N", "o">>, speaker |-> "STEWIE", emotion |-> "angry"],
      [caption |-> <<"O", "k">>, speaker |-> "STEWIE"],
      [caption |-> <<"Y", "o">>, speaker |-> "Peter", emotion |-> "excited"] }

\* the end-to-end script: spoken, pause, spoken, options
ExampleScript ==
    << [caption |-> <<"H", "e", "l", "l", "o">>, speaker |-> "PETER",
        emotion |-> "neutral"],
       [caption |-> <<"[", "p", "a", "u", "s", "e", "]">>, speaker |-> "PETER",
        emotion |-> "neutral"],
       [caption |-> <<"H", "i">>, speaker |-> "STEWIE", emotion |-> "neutral"],
       [caption |-> <<"A", ")", " ", "x">>, speaker |-> "PETER",
        emotion |-> "neutral", is_options |-> TRUE] >>

ScriptsOver(lines) == UNION { [1..n -> lines] : n \in 0..MaxLines }

\* the durations ffprobe may report for a clip
RawDurations == {1000, 1200, 3000, 4000}

\* measured minus computed duration of the concatenated file
Drifts == {0 - 800, 0 - 500, 200, 500, 800}

---------------------------------------------------------------------------
(* Files *)

\* quiz_segment_{idx:03d}.mp3
QuizSegmentFile(i) == [kind |-> "quiz_segment", index |-> i]

\* segment_{idx:03d}_{speaker.lower()}.mp3
SegmentFile(i, speaker) == [kind |-> "segment", index |-> i, speaker |-> speaker]

None == [kind |-> "None"]

\* a single background video file given by the caller
BackgroundFile == [kind |-> "file", name |-> "minecraft"]

\* a directory of background videos: its *.mp4 entries
VideosDir == [kind |-> "dir", videos |-> {"a", "b"}]

\* a directory without any *.mp4 entry
EmptyDir == [kind |-> "dir", videos |-> {}]

\* the background paths a caller passes: the command line passes a file or a
\* directory, the API always the videos directory it has validated
Backgrounds(p) ==
    IF p = "quiz" THEN {BackgroundFile, VideosDir, EmptyDir}
    ELSE {BackgroundFile, VideosDir}

---------------------------------------------------------------------------
Init ==
    /\ pipeline \in {"quiz", "dialogue"}
    /\ background \in Backgrounds(pipeline)
    /\ selected_background = None
    /\ transcripts \in IF pipeline = "quiz"
                       THEN ScriptsOver(QuizLines) \cup {ExampleScript}
                       ELSE ScriptsOver(DialogueLines)
    /\ pc = "start"
    /\ idx = 1
    /\ audio_segments = << >>
    /\ returned = FALSE
    /\ tts_calls = << >>
    /\ files = {}
    /\ manifest = << >>
    /\ timings = << >>
    /\ current_time = 0
    /\ actual_duration = NoValue
    /\ rescaled = FALSE
    /\ probes = << >>
    /\ steps = << >>
    /\ assets = {}
    /\ character_images = << >>
    /\ character_enables = << >>
    /\ caption_filters = << >>
    /\ filter_parts = << >>
    /\ render_inputs = << >>
    /\ stderr = ""
    /\ error = None
    /\ pause_duration = PAUSE_DURATION
    /\ options_duration = OPTIONS_DURATION
    /\ PollingIdle
    /\ wrap_input = << >>
    /\ wrapped_text = << >>
    /\ subtopics = << >>
    /\ variant = "list"
    /\ uploaded = << >>
    /\ results = << >>
    /\ runs = << >>
    /\ shared_files = {}

---------------------------------------------------------------------------
(* Background selection *)

\* the paths random.choice(list(videos_path.glob("*.mp4"))) may return
get_random_background_video(videos_path) ==
    { [kind |-> "file", name |-> v] : v \in videos_path.videos }

\* the entry of generate_quiz_video up to the call of the synthesizer: a
\* directory is replaced by one of its videos, a file is used directly
QuizSelectBackground ==
    /\ pipeline = "quiz"
    /\ pc = "start"
    /\ IF background.kind = "dir"
       THEN IF get_random_background_video(background) = {}
            THEN \* raise FileNotFoundError("No background videos found")
                 /\ pc' = "failed"
                 /\ error' = [type |-> "FileNotFoundError", message |-> << >>]
                 /\ UNCHANGED <<selected_background, steps>>
            ELSE /\ selected_background' \in get_random_background_video(background)
                 /\ pc' = "synth"
                 /\ steps' = <<"synthesis">>
                 /\ error' = error
       ELSE /\ selected_background' = background
            /\ pc' = "synth"
            /\ steps' = <<"synthesis">>
            /\ error' = error
    /\ UNCHANGED <<concurrent_vars, caller_vars, wrap_vars, batch_vars, polling_vars, pipeline, background, transcripts, idx, audio_segments,
                   returned, tts_calls, files, manifest, timings, current_time,
                   actual_duration, rescaled, probes, compositor_vars, stderr>>

\* the entry of generate_videos_from_subtopic_list up to the call of the
\* synthesizer: background_video = Path(background_video), used as it is
DialogueBackground ==
    /\ pipeline = "dialogue"
    /\ pc = "start"
    /\ selected_background' = background
    /\ pc' = "synth"
    /\ steps' = <<"synthesis">>
    /\ UNCHANGED <<concurrent_vars, caller_vars, wrap_vars, batch_vars, polling_vars, pipeline, background, transcripts, idx, audio_segments,
                   returned, tts_calls, files, manifest, timings, current_time,
                   actual_duration, rescaled, probes, compositor_vars, stderr, error>>

---------------------------------------------------------------------------
(* Segment synthesizers *)

\* caption.startswith("[") and caption.endswith("]")
IsPauseCaption(caption) ==
    /\ Len(caption) > 0
    /\ caption[1] = "["
    /\ caption[Len(caption)] = "]"

\* faulty variant, used to test the properties: an options line is synthesized like a spoken line
QuizDescriptor_SpeakOptions(i, segment) ==
    LET caption == segment.caption
        speaker == Get(segment, "speaker", "PETER")
        emotion == Get(segment, "emotion", "neutral")
    IN  IF IsPauseCaption(caption)
        THEN [index |-> i, file |-> None, caption |-> caption,
              speaker |-> speaker, emotion |-> emotion, is_pause |-> TRUE]
        ELSE [index |-> i, file |-> QuizSegmentFile(i), caption |-> caption,
              speaker |-> speaker, emotion |-> emotion, is_pause |-> FALSE]

\* the descriptor generate_audio_from_quiz_transcript appends for line i
QuizDescriptor(i, segment) ==
    LET caption == segment.caption
        speaker == Get(segment, "speaker", "PETER")
        emotion == Get(segment, "emotion", "neutral")
        is_options == Get(segment, "is_options", FALSE)
    IN  IF IsPauseCaption(caption)
        THEN [index |-> i, file |-> None, caption |-> caption,
              speaker |-> speaker, emotion |-> emotion, is_pause |-> TRUE]
        ELSE IF is_options
        THEN [index |-> i, file |-> None, caption |-> caption,
              speaker |-> speaker, emotion |-> emotion, is_options |-> TRUE]
        ELSE [index |-> i, file |-> QuizSegmentFile(i), caption |-> caption,
              speaker |-> speaker, emotion |-> emotion, is_pause |-> FALSE]

\* faulty variant, used to test the properties: the descriptor carries a 1-based index
DialogueDescriptor_OneBased(i, segment) ==
    [index |-> i + 1,
     file |-> SegmentFile(i, segment.speaker),
     caption |-> segment.caption,
     speaker |-> segment.speaker,
     emotion |-> Get(segment, "emotion", "neutral")]

\* the descriptor generate_audio_from_transcript appends for line i
DialogueDescriptor(i, segment) ==
    [index |-> i,
     file |-> SegmentFile(i, segment.speaker),
     caption |-> segment.caption,
     speaker |-> segment.speaker,
     emotion |-> Get(segment, "emotion", "neutral")]

\* faulty variant, used to test the properties: the error is swallowed and the loop goes on with the next line
SynthesisError_Skipped ==
    /\ pc' = pc
    /\ idx' = idx + 1
    /\ UNCHANGED <<files, audio_segments, error>>

\* client.text_to_speech.convert raises and nothing catches it: the
\* synthesizer and the run end
SynthesisError ==
    /\ pc' = "failed"
    /\ error' = [type |-> "ApiError", message |-> << >>]
    /\ UNCHANGED <<files, audio_segments, idx>>

\* one iteration of the loop of generate_audio_from_quiz_transcript
QuizSynthLine ==
    /\ pipeline = "quiz"
    /\ pc = "synth"
    /\ idx <= Len(transcripts)
    /\ LET d == QuizDescriptor(idx - 1, transcripts[idx])
       IN  IF d.file = None
           THEN /\ audio_segments' = Append(audio_segments, d)
                /\ idx' = idx + 1
                /\ UNCHANGED <<tts_calls, files, pc, error>>
           ELSE /\ tts_calls' = Append(tts_calls, idx - 1)
                /\ \E ok \in BOOLEAN :
                      IF ok
                      THEN /\ files' = files \cup {d.file}
                           /\ audio_segments' = Append(audio_segments, d)
                           /\ idx' = idx + 1
                           /\ UNCHANGED <<pc, error>>
                      ELSE SynthesisError
    /\ UNCHANGED <<concurrent_vars, caller_vars, wrap_vars, batch_vars, polling_vars, pipeline, background, selected_background, transcripts, returned, manifest, timings,
                   current_time, actual_duration, rescaled, probes, steps,
                   compositor_vars, stderr>>

\* one iteration of the loop of generate_audio_from_transcript
DialogueSynthLine ==
    /\ pipeline = "dialogue"
    /\ pc = "synth"
    /\ idx <= Len(transcripts)
    /\ LET d == DialogueDescriptor(idx - 1, transcripts[idx])
       IN  /\ tts_calls' = Append(tts_calls, idx - 1)
           /\ \E ok \in BOOLEAN :
                 IF ok
                 THEN /\ files' = files \cup {d.file}
                      /\ audio_segments' = Append(audio_segments, d)
                      /\ idx' = idx + 1
                      /\ UNCHANGED <<pc, error>>
                 ELSE SynthesisError
    /\ UNCHANGED <<concurrent_vars, caller_vars, wrap_vars, batch_vars, polling_vars, pipeline, background, selected_background, transcripts, returned, manifest, timings,
                   current_time, actual_duration, rescaled, probes, steps,
                   compositor_vars, stderr>>

\* return audio_segments
SynthReturn ==
    /\ pc = "synth"
    /\ idx > Len(transcripts)
    /\ returned' = TRUE
    /\ pc' = "concat"
    /\ idx' = 1
    /\ UNCHANGED <<concurrent_vars, caller_vars, wrap_vars, batch_vars, polling_vars, pipeline, background, selected_background, transcripts, audio_segments, tts_calls, files,
                   manifest, timings, current_time, actual_duration, rescaled,
                   probes, steps, compositor_vars, stderr, error>>

---------------------------------------------------------------------------
(* Timeline builders *)

SilencePauseFile == [kind |-> "silence_pause"]

SilenceOptionsFile == [kind |-> "silence_options"]

\* quiz_filelist.txt / filelist.txt
ListFile == [kind |-> "filelist"]

\* quiz_full_audio.mp3 / the per-subtopic concatenated audio
OutputFile == [kind |-> "full_audio"]

\* faulty variant, used to test the properties: an options placeholder gets
\* no line in the file list
RECURSIVE QuizManifest_NoOptions(_)
QuizManifest_NoOptions(segments) ==
    IF segments = << >> THEN << >>
    ELSE LET segment == Head(segments)
             rest == QuizManifest_NoOptions(Tail(segments))
         IN  IF Get(segment, "is_pause", FALSE) THEN <<SilencePauseFile>> \o rest
             ELSE IF segment.file # None THEN <<segment.file>> \o rest
             ELSE rest

\* the file list written by concatenate_quiz_audio_segments
RECURSIVE QuizManifest(_)
QuizManifest(segments) ==
    IF segments = << >> THEN << >>
    ELSE LET segment == Head(segments)
             rest == QuizManifest(Tail(segments))
         IN  IF Get(segment, "is_pause", FALSE) THEN <<SilencePauseFile>> \o rest
             ELSE IF Get(segment, "is_options", FALSE)
             THEN <<SilenceOptionsFile>> \o rest
             ELSE IF segment.file # None THEN <<segment.file>> \o rest
             ELSE rest

\* the file list written by concatenate_audio_segments
DialogueManifest(segments) == [i \in 1..Len(segments) |-> segments[i].file]

\* what ffmpeg may print on its standard error when it fails
Diagnostics == {"No such file or directory", "Invalid data found"}

\* faulty variant, used to test the properties: the message carries the
\* return code only
ConcatErrorMessage_ReturnCode(diagnostic) ==
    <<"FFmpeg failed with return code ", "1">>

\* f"FFmpeg concatenation failed: {result.stderr}"
ConcatErrorMessage(diagnostic) == <<"FFmpeg concatenation failed: ", diagnostic>>

\* silence assets, file list and ffmpeg concat of concatenate_quiz_audio_segments
QuizConcatenate ==
    /\ pipeline = "quiz"
    /\ pc = "concat"
    /\ IF audio_segments = << >>
       THEN \* audio_segments[0] raises IndexError
            /\ pc' = "failed"
            /\ error' = [type |-> "IndexError", message |-> << >>]
            /\ UNCHANGED <<files, manifest, stderr>>
       ELSE /\ manifest' = QuizManifest(audio_segments)
            /\ \E ok \in BOOLEAN, diagnostic \in Diagnostics :
                  IF ok
                  THEN /\ files' = files \cup {SilencePauseFile, SilenceOptionsFile,
                                               ListFile, OutputFile}
                       /\ pc' = "probe"
                       /\ UNCHANGED <<stderr, error>>
                  ELSE /\ files' = files \cup {SilencePauseFile, SilenceOptionsFile,
                                               ListFile}
                       /\ pc' = "failed"
                       /\ stderr' = diagnostic
                       /\ error' = [type |-> "Exception",
                                    message |-> ConcatErrorMessage(diagnostic)]
    /\ idx' = 1
    /\ timings' = << >>
    /\ current_time' = 0
    /\ steps' = Append(steps, "concatenation")
    /\ UNCHANGED <<concurrent_vars, caller_vars, wrap_vars, batch_vars, polling_vars, pipeline, background, selected_background, transcripts, audio_segments, returned, tts_calls,
                   actual_duration, rescaled, probes, compositor_vars>>

\* file list and ffmpeg concat of concatenate_audio_segments
DialogueConcatenate ==
    /\ pipeline = "dialogue"
    /\ pc = "concat"
    /\ IF audio_segments = << >>
       THEN /\ pc' = "failed"
            /\ error' = [type |-> "IndexError", message |-> << >>]
            /\ UNCHANGED <<files, manifest, stderr>>
       ELSE /\ manifest' = DialogueManifest(audio_segments)
            /\ \E ok \in BOOLEAN, diagnostic \in Diagnostics :
                  IF ok
                  THEN /\ files' = files \cup {ListFile, OutputFile}
                       /\ pc' = "probe"
                       /\ UNCHANGED <<stderr, error>>
                  ELSE /\ files' = files \cup {ListFile}
                       /\ pc' = "failed"
                       /\ stderr' = diagnostic
                       /\ error' = [type |-> "Exception",
                                    message |-> ConcatErrorMessage(diagnostic)]
    /\ idx' = 1
    /\ timings' = << >>
    /\ current_time' = 0
    /\ steps' = Append(steps, "concatenation")
    /\ UNCHANGED <<concurrent_vars, caller_vars, wrap_vars, batch_vars, polling_vars, pipeline, background, selected_background, transcripts, audio_segments, returned, tts_calls,
                   actual_duration, rescaled, probes, compositor_vars>>

\* faulty variant, used to test the properties: no padding
PadDuration_None(raw) == raw

\* duration = raw_duration + 0.05
PadDuration(raw) == FAdd(raw, PAD)

\* duration = float(result.stdout.strip())
RawDuration(raw) == raw

\* faulty variant, used to test the properties: the interval carries a 1-based index
QuizTiming_OneBased(segment, start, duration) ==
    [index |-> segment.index + 1,
     start |-> start,
     end |-> FAdd(start, duration),
     duration |-> duration,
     caption |-> segment.caption,
     speaker |-> segment.speaker,
     emotion |-> Get(segment, "emotion", "neutral"),
     is_pause |-> Get(segment, "is_pause", FALSE),
     is_options |-> Get(segment, "is_options", FALSE)]

\* the record concatenate_quiz_audio_segments appends to timings
QuizTiming(segment, start, duration) ==
    [index |-> segment.index,
     start |-> start,
     end |-> FAdd(start, duration),
     duration |-> duration,
     caption |-> segment.caption,
     speaker |-> segment.speaker,
     emotion |-> Get(segment, "emotion", "neutral"),
     is_pause |-> Get(segment, "is_pause", FALSE),
     is_options |-> Get(segment, "is_options", FALSE)]

\* the record concatenate_audio_segments appends to timings
DialogueTiming(segment, start, duration) ==
    [index |-> segment.index,
     start |-> start,
     end |-> FAdd(start, duration),
     duration |-> duration,
     caption |-> segment.caption,
     speaker |-> segment.speaker,
     emotion |-> Get(segment, "emotion", "neutral")]

\* what os.path.exists and ffprobe may answer for a clip: the file is gone,
\* the probe fails or prints nothing, or the probe prints a duration
ProbeOutcomes ==
    {[kind |-> "missing", raw |-> 0], [kind |-> "failed", raw |-> 0]}
        \cup {[kind |-> "ok", raw |-> r] : r \in RawDurations}

\* faulty variant, used to test the properties: a skipped clip still
\* advances the accumulated time by the padding
SkipClip_CountsPadding ==
    /\ current_time' = FAdd(current_time, PAD)
    /\ UNCHANGED <<timings, probes>>

\* continue: the clip gets no interval and adds nothing to current_time
SkipClip == UNCHANGED <<timings, current_time, probes>>

\* one iteration of the timing loop of concatenate_quiz_audio_segments
QuizProbeSegment ==
    /\ pipeline = "quiz"
    /\ pc = "probe"
    /\ idx <= Len(audio_segments)
    /\ LET segment == audio_segments[idx]
       IN  IF Get(segment, "is_pause", FALSE)
           THEN /\ timings' = Append(timings,
                                 QuizTiming(segment, current_time, pause_duration))
                /\ current_time' = FAdd(current_time, pause_duration)
                /\ UNCHANGED <<files, probes>>
           ELSE IF Get(segment, "is_options", FALSE)
           THEN /\ timings' = Append(timings,
                                 QuizTiming(segment, current_time, options_duration))
                /\ current_time' = FAdd(current_time, options_duration)
                /\ UNCHANGED <<files, probes>>
           ELSE \E out \in ProbeOutcomes :
                  IF out.kind = "missing" \/ segment.file = None
                  THEN /\ files' = files \ {segment.file}
                       /\ SkipClip
                  ELSE IF out.kind = "failed"
                  THEN /\ files' = files
                       /\ SkipClip
                  ELSE /\ timings' = Append(timings,
                                        QuizTiming(segment, current_time,
                                                   PadDuration(out.raw)))
                       /\ current_time' = FAdd(current_time, PadDuration(out.raw))
                       /\ probes' = Append(probes, [index |-> segment.index,
                                                    raw |-> out.raw])
                       /\ files' = files
    /\ idx' = idx + 1
    /\ UNCHANGED <<concurrent_vars, caller_vars, wrap_vars, batch_vars, polling_vars, pipeline, background, selected_background, transcripts, pc, audio_segments, returned,
                   tts_calls, manifest, actual_duration, rescaled, steps,
                   compositor_vars, stderr, error>>

\* one iteration of the timing loop of concatenate_audio_segments
DialogueProbeSegment ==
    /\ pipeline = "dialogue"
    /\ pc = "probe"
    /\ idx <= Len(audio_segments)
    /\ LET segment == audio_segments[idx]
       IN  \E out \in ProbeOutcomes :
              IF out.kind = "missing"
              THEN /\ files' = files \ {segment.file}
                   /\ SkipClip
              ELSE IF out.kind = "failed"
              THEN /\ files' = files
                   /\ SkipClip
              ELSE /\ timings' = Append(timings,
                                    DialogueTiming(segment, current_time,
                                                   RawDuration(out.raw)))
                   /\ current_time' = FAdd(current_time, RawDuration(out.raw))
                   /\ probes' = Append(probes, [index |-> segment.index,
                                                raw |-> out.raw])
                   /\ files' = files
    /\ idx' = idx + 1
    /\ UNCHANGED <<concurrent_vars, caller_vars, wrap_vars, batch_vars, polling_vars, pipeline, background, selected_background, transcripts, pc, audio_segments, returned,
                   tts_calls, manifest, actual_duration, rescaled, steps,
                   compositor_vars, stderr, error>>

\* faulty variant, used to test the properties: a drift of exactly 0.5 s rescales too
DriftExceeded_AtLeast(actual, computed) ==
    Abs(FSub(actual, computed)) >= DRIFT_TOLERANCE

\* faulty variant, used to test the properties: the timings are adjusted
\* only beyond a full second of drift
DriftExceeded_OneSecond(actual, computed) ==
    Abs(FSub(actual, computed)) > 2 * DRIFT_TOLERANCE

\* duration_diff = abs(actual_duration - current_time); duration_diff > 0.5
DriftExceeded(actual, computed) == Abs(FSub(actual, computed)) > DRIFT_TOLERANCE

\* faulty variant, used to test the properties: the factor is inverted
ScaleFactor_Inverted(actual, computed) == FDiv(computed, actual)

\* scale_factor = actual_duration / current_time
ScaleFactor(actual, computed) == FDiv(actual, computed)

\* faulty variant, used to test the properties: the start of an interval is left unscaled
ScaleTiming_EndOnly(timing, scale_factor) ==
    [timing EXCEPT !.end = FMul(@, scale_factor),
                   !.duration = FMul(@, scale_factor)]

\* timing["start"] *= scale_factor; ["end"] *= ...; ["duration"] *= ...
ScaleTiming(timing, scale_factor) ==
    [timing EXCEPT !.start = FMul(@, scale_factor),
                   !.end = FMul(@, scale_factor),
                   !.duration = FMul(@, scale_factor)]

\* what ffprobe may answer for the concatenated file when the timeline
\* computed `computed`: nothing, or a duration near it
ActualOutcomes(computed) ==
    {[kind |-> "failed", raw |-> 0]}
        \cup { [kind |-> "ok", raw |-> FRound(computed + d, 1)] :
                   d \in {x \in Drifts : computed + x >= 0} }

\* the probe of the concatenated file, the drift correction, the cleanup and
\* the return of concatenate_quiz_audio_segments
QuizReconcile ==
    /\ pipeline = "quiz"
    /\ pc = "probe"
    /\ idx > Len(audio_segments)
    /\ \E out \in ActualOutcomes(current_time) :
          IF out.kind = "failed"
          THEN /\ actual_duration' = NoValue
               /\ pc' = "composite"
               /\ files' = files \ {SilencePauseFile, SilenceOptionsFile, ListFile}
               /\ UNCHANGED <<timings, current_time, rescaled, error>>
          ELSE /\ actual_duration' = out.raw
               /\ IF DriftExceeded(out.raw, current_time)
                  THEN IF current_time = 0
                       THEN \* actual_duration / current_time: ZeroDivisionError
                            /\ pc' = "failed"
                            /\ error' = [type |-> "ZeroDivisionError",
                                         message |-> << >>]
                            /\ UNCHANGED <<timings, current_time, rescaled, files>>
                       ELSE /\ timings' =
                                 [i \in 1..Len(timings) |->
                                    ScaleTiming(timings[i],
                                                ScaleFactor(out.raw, current_time))]
                            /\ current_time' = out.raw
                            /\ rescaled' = TRUE
                            /\ pc' = "composite"
                            /\ files' = files \ {SilencePauseFile,
                                                 SilenceOptionsFile, ListFile}
                            /\ error' = error
                  ELSE /\ pc' = "composite"
                       /\ files' = files \ {SilencePauseFile, SilenceOptionsFile,
                                            ListFile}
                       /\ UNCHANGED <<timings, current_time, rescaled, error>>
    /\ steps' = Append(steps, "reconciliation")
    /\ UNCHANGED <<concurrent_vars, caller_vars, wrap_vars, batch_vars, polling_vars, pipeline, background, selected_background, transcripts, idx, audio_segments, returned,
                   tts_calls, manifest, probes, compositor_vars, stderr>>

\* the return of concatenate_audio_segments
DialogueReturn ==
    /\ pipeline = "dialogue"
    /\ pc = "probe"
    /\ idx > Len(audio_segments)
    /\ pc' = "composite"
    /\ UNCHANGED <<concurrent_vars, caller_vars, wrap_vars, batch_vars, polling_vars, pipeline, background, selected_background, transcripts, idx, audio_segments, returned,
                   tts_calls, files, manifest, timings, current_time,
                   actual_duration, rescaled, probes, steps, compositor_vars, stderr,
                   error>>

---------------------------------------------------------------------------
(* Caption/overlay compositors *)

\* speaker.lower()
Lower(speaker) ==
    CASE speaker = "PETER" -> "peter"
      [] speaker = "Peter" -> "peter"
      [] speaker = "STEWIE" -> "stewie"
      [] OTHER -> speaker

\* assets/characters/{name}.png
ImageFile(name) == [kind |-> "image", name |-> name]

\* the final video
VideoFile == [kind |-> "video"]

get_peter_image(emotion) ==
    IF emotion = "neutral" \/ emotion = ""
    THEN ImageFile(<<"peter">>)
    ELSE ImageFile(<<"peter", emotion>>)

get_character_image(speaker, emotion) ==
    IF emotion = "neutral" \/ emotion = ""
    THEN ImageFile(<<Lower(speaker)>>)
    ELSE ImageFile(<<Lower(speaker), emotion>>)

\* the exact image if it exists, else the neutral one if it exists, else None
ResolveImage(image_path, fallback_path, disk) ==
    IF image_path \in disk THEN image_path
    ELSE IF fallback_path \in disk THEN fallback_path
    ELSE None

HasKey(dict, key) == \E i \in 1..Len(dict) : dict[i].key = key

\* peter_images, in insertion order
RECURSIVE PeterImages(_, _, _)
PeterImages(caption_timings, acc, disk) ==
    IF caption_timings = << >> THEN acc
    ELSE LET emotion == Get(Head(caption_timings), "emotion", "neutral")
         IN  IF HasKey(acc, emotion)
             THEN PeterImages(Tail(caption_timings), acc, disk)
             ELSE PeterImages(Tail(caption_timings),
                              Append(acc, [key |-> emotion,
                                           image |-> ResolveImage(
                                               get_peter_image(emotion),
                                               get_peter_image("neutral"),
                                               disk)]),
                              disk)

\* character_images, in insertion order
RECURSIVE CharacterImages(_, _, _)
CharacterImages(caption_timings, acc, disk) ==
    IF caption_timings = << >> THEN acc
    ELSE LET speaker == Head(caption_timings).speaker
             emotion == Get(Head(caption_timings), "emotion", "neutral")
             key == <<speaker, emotion>>
         IN  IF HasKey(acc, key)
             THEN CharacterImages(Tail(caption_timings), acc, disk)
             ELSE CharacterImages(Tail(caption_timings),
                                  Append(acc, [key |-> key,
                                               image |-> ResolveImage(
                                                   get_character_image(speaker, emotion),
                                                   get_character_image(speaker, "neutral"),
                                                   disk)]),
                                  disk)

\* create_enable_expr: "+".join(between(t,start,end)), or "0" for no timing.
\* The expression is kept as the list of its between() windows; repr() of a
\* float parses back to the same float.
create_enable_expr(matching) ==
    [i \in 1..Len(matching) |-> [start |-> matching[i].start, end |-> matching[i].end]]

\* faulty variant, used to test the properties: pause intervals are not filtered out
PeterMatchingTimings_All(caption_timings, emotion) ==
    SelectSeq(caption_timings, LAMBDA t : Get(t, "emotion", "neutral") = emotion)

\* matching_timings of create_quiz_video_with_audio_and_captions
PeterMatchingTimings(caption_timings, emotion) ==
    SelectSeq(caption_timings,
              LAMBDA t : /\ Get(t, "emotion", "neutral") = emotion
                         /\ ~Get(t, "is_pause", FALSE))

\* matching_timings of create_video_with_audio_and_captions
CharacterMatchingTimings(caption_timings, key) ==
    SelectSeq(caption_timings,
              LAMBDA t : /\ t.speaker = key[1]
                         /\ Get(t, "emotion", "neutral") = key[2])

\* faulty variant, used to test the properties: options intervals are skipped like pauses
QuizCaptioned_NoPlaceholders(caption_timings) ==
    SelectSeq(caption_timings,
              LAMBDA t : ~Get(t, "is_pause", FALSE) /\ ~Get(t, "is_options", FALSE))

\* the timings create_quiz_video_with_audio_and_captions draws a caption for
QuizCaptioned(caption_timings) ==
    SelectSeq(caption_timings, LAMBDA t : ~Get(t, "is_pause", FALSE))

\* the drawtext filter of one quiz caption
QuizCaptionFilter(timing) ==
    [caption |-> wrap_caption_text(timing.caption),
     fontsize |-> IF Get(timing, "is_options", FALSE) THEN 48 ELSE 54,
     boxcolor |-> IF Get(timing, "is_options", FALSE)
                  THEN "0x0000AA80" ELSE "0x00000080",
     start |-> timing.start,
     end |-> timing.end]

\* the drawtext filter of one dialogue caption
DialogueCaptionFilter(timing) ==
    [caption |-> wrap_caption_text(timing.caption),
     fontsize |-> 54,
     boxcolor |-> IF timing.speaker = "PETER" THEN "0x00000080" ELSE "0x0000FF80",
     start |-> timing.start,
     end |-> timing.end]

\* the character images that may exist under assets/characters
AllImages ==
    { ImageFile(<<sp>>) : sp \in {"peter", "stewie"} }
        \cup { ImageFile(<<sp, e>>) :
                  sp \in {"peter", "stewie"}, e \in {"excited", "angry", "teaching"} }

ImageConfigs ==
    { AllImages,
      { ImageFile(<<"peter">>), ImageFile(<<"stewie">>) },
      { ImageFile(<<"peter">>) },
      {} }

\* the entries of the image dict that have an image path
WithImage(images) == SelectSeq(images, LAMBDA e : e.image # None)

\* stream labels of the filter graph: [n:v], [bg] and [v], [<name>_scaled],
\* [tmp_k]
InputStream(n) == [label |-> "input", n |-> n]

Stream(name) == [label |-> name]

ScaledStream(name) == [label |-> "scaled", name |-> name]

TmpStream(k) == [label |-> "tmp", n |-> k]

\* stream_name = f"peter_{emotion}_scaled"
PeterStreamName(emotion) == <<"peter", emotion>>

\* stream_name = f"{speaker.lower()}_{emotion}_scaled"
CharacterStreamName(key) == <<Lower(key[1]), key[2]>>

\* overlay=W-w-{peter_margin}:H-h-{peter_margin}
PeterPosition(key) == "W-w-10:H-h-10"

\* Stewie on the bottom left, Peter on the bottom right
CharacterPosition(key) ==
    IF key[1] = "STEWIE" THEN "0:H-h-0" ELSE "W-w-10:H-h-10"

\* the scale and pad of the background video
BackgroundFilter ==
    [kind |-> "scale_pad", ins |-> <<InputStream(0)>>, out |-> Stream("bg"),
     key |-> None, position |-> "", enable |-> << >>]

\* one scale filter per key with an image; input_index counts from 2
ScaleFilters(images, StreamName(_)) ==
    LET with == WithImage(images)
    IN  [i \in 1..Len(with) |->
           [kind |-> "scale", ins |-> <<InputStream(i + 1)>>,
            out |-> ScaledStream(StreamName(with[i].key)),
            key |-> with[i].key, position |-> "", enable |-> << >>]]

\* the enable expression built for the key
EnableOf(enables, key) ==
    (CHOOSE e \in { enables[i] : i \in 1..Len(enables) } : e.key = key).windows

\* faulty variant, used to test the properties: a key without image is
\* overlaid as well
Overlaid_All(images) == images

\* the keys an overlay is chained for: those with a scaled stream and an image
Overlaid(images) == WithImage(images)

\* the chain of overlay filters: each reads the current stream and a scaled
\* stream and writes [tmp_k]
OverlayFilters(order, enables, StreamName(_), Position(_)) ==
    [k \in 1..Len(order) |->
       [kind |-> "overlay",
        ins |-> <<IF k = 1 THEN Stream("bg") ELSE TmpStream(k - 2),
                  ScaledStream(StreamName(order[k].key))>>,
        out |-> TmpStream(k - 1),
        key |-> order[k].key,
        position |-> Position(order[k].key),
        enable |-> EnableOf(enables, order[k].key)]]

\* the captions, or split when there is none, on top of the last stream
FinalFilter(overlays, captions) ==
    [kind |-> IF captions # << >> THEN "captions" ELSE "split",
     ins |-> <<IF overlays = << >> THEN Stream("bg") ELSE Last(overlays).out>>,
     out |-> Stream("v"),
     key |-> None, position |-> "", enable |-> << >>]

\* filter_parts of create_quiz_video_with_audio_and_captions
PeterFilterParts(images, enables, captions) ==
    LET overlays == OverlayFilters(Overlaid(images), enables,
                                   PeterStreamName, PeterPosition)
    IN  <<BackgroundFilter>> \o ScaleFilters(images, PeterStreamName)
            \o overlays \o <<FinalFilter(overlays, captions)>>

\* filter_parts of create_video_with_audio_and_captions: the overlays of
\* Stewie come first, then those of Peter
CharacterFilterParts(images, enables, captions) ==
    LET order == SelectSeq(Overlaid(images), LAMBDA e : e.key[1] = "STEWIE")
                     \o SelectSeq(Overlaid(images), LAMBDA e : e.key[1] = "PETER")
        overlays == OverlayFilters(order, enables,
                                   CharacterStreamName, CharacterPosition)
    IN  <<BackgroundFilter>> \o ScaleFilters(images, CharacterStreamName)
            \o overlays \o <<FinalFilter(overlays, captions)>>

\* faulty variant, used to test the properties: every key gets an -i
\* argument, with or without an image
RenderInputs_EveryKey(background_video, audio_file, images) ==
    <<background_video, audio_file>>
        \o [i \in 1..Len(images) |-> images[i].image]

\* the -i arguments of cmd: background, audio, then one per key with an image
RenderInputs(background_video, audio_file, images) ==
    <<background_video, audio_file>>
        \o [i \in 1..Len(WithImage(images)) |-> WithImage(images)[i].image]

\* f"FFmpeg failed with return code {result.returncode}"
RenderErrorMessage == <<"FFmpeg failed with return code ", "1">>

\* what the run of the render command may do: fail without writing, fail
\* leaving what it had written at output_file, or succeed; ffmpeg cannot open
\* a directory as its background input
RenderOutcomes(background_video) ==
    IF background_video.kind = "dir" THEN {"failed"}
    ELSE {"failed", "failed_partial", "ok"}

\* faulty variant, used to test the properties: a failed render is only
\* reported and the function returns as after a success
Render_IgnoresFailure(background_video) ==
    \E out \in RenderOutcomes(background_video), diagnostic \in Diagnostics :
        IF out = "ok"
        THEN /\ files' = files \cup {VideoFile}
             /\ pc' = "upload"
             /\ UNCHANGED <<stderr, error>>
        ELSE /\ files' = files
             /\ pc' = "upload"
             /\ stderr' = diagnostic
             /\ error' = error

\* the run of the render command and the return or raise that follows
Render(background_video) ==
    \E out \in RenderOutcomes(background_video), diagnostic \in Diagnostics :
        IF out = "ok"
        THEN /\ files' = files \cup {VideoFile}
             /\ pc' = "upload"
             /\ UNCHANGED <<stderr, error>>
        ELSE /\ files' = IF out = "failed_partial"
                         THEN files \cup {VideoFile} ELSE files
             /\ pc' = "failed"
             /\ stderr' = diagnostic
             /\ error' = [type |-> "Exception", message |-> RenderErrorMessage]

\* the probe of the audio duration fails: raise Exception / ValueError
AudioProbeError ==
    /\ pc' = "failed"
    /\ \E diagnostic \in Diagnostics :
          /\ stderr' = diagnostic
          /\ error' = [type |-> "Exception",
                       message |-> <<"Failed to get audio duration: ", diagnostic>>]
    /\ UNCHANGED <<files, character_enables, caption_filters, filter_parts,
                   render_inputs>>

\* create_quiz_video_with_audio_and_captions
QuizComposite ==
    /\ pipeline = "quiz"
    /\ pc = "composite"
    /\ steps' = Append(steps, "compositing")
    /\ IF OutputFile \notin files
       THEN \* raise FileNotFoundError
            /\ pc' = "failed"
            /\ error' = [type |-> "FileNotFoundError", message |-> << >>]
            /\ UNCHANGED <<files, compositor_vars, stderr>>
       ELSE \E disk \in ImageConfigs, probed \in BOOLEAN :
              LET images == PeterImages(timings, << >>, disk)
                  enables == [i \in 1..Len(images) |->
                                [key |-> images[i].key,
                                 windows |-> create_enable_expr(
                                     PeterMatchingTimings(timings, images[i].key))]]
                  captions == [i \in 1..Len(QuizCaptioned(timings)) |->
                                 QuizCaptionFilter(QuizCaptioned(timings)[i])]
              IN  /\ assets' = disk
                  /\ character_images' = images
                  /\ IF ~probed
                     THEN AudioProbeError
                     ELSE /\ character_enables' = enables
                          /\ caption_filters' = captions
                          /\ filter_parts' = PeterFilterParts(images, enables, captions)
                          /\ render_inputs' =
                               RenderInputs(selected_background, OutputFile, images)
                          /\ Render(selected_background)
    /\ UNCHANGED <<concurrent_vars, caller_vars, wrap_vars, batch_vars, polling_vars, pipeline, background, selected_background, transcripts, idx,
                   audio_segments, returned, tts_calls, manifest, timings,
                   current_time, actual_duration, rescaled, probes>>

\* create_video_with_audio_and_captions
DialogueComposite ==
    /\ pipeline = "dialogue"
    /\ pc = "composite"
    /\ steps' = Append(steps, "compositing")
    /\ IF OutputFile \notin files
       THEN /\ pc' = "failed"
            /\ error' = [type |-> "FileNotFoundError", message |-> << >>]
            /\ UNCHANGED <<files, compositor_vars, stderr>>
       ELSE \E disk \in ImageConfigs, probed \in BOOLEAN :
              LET images == CharacterImages(timings, << >>, disk)
                  enables == [i \in 1..Len(images) |->
                                [key |-> images[i].key,
                                 windows |-> create_enable_expr(
                                     CharacterMatchingTimings(timings, images[i].key))]]
                  captions == [i \in 1..Len(timings) |->
                                 DialogueCaptionFilter(timings[i])]
              IN  /\ assets' = disk
                  /\ character_images' = images
                  /\ IF ~probed
                     THEN AudioProbeError
                     ELSE /\ character_enables' = enables
                          /\ caption_filters' = captions
                          /\ filter_parts' =
                               CharacterFilterParts(images, enables, captions)
                          /\ render_inputs' =
                               RenderInputs(selected_background, OutputFile, images)
                          /\ Render(selected_background)
    /\ UNCHANGED <<concurrent_vars, caller_vars, wrap_vars, batch_vars, polling_vars, pipeline, background, selected_background, transcripts, idx,
                   audio_segments, returned, tts_calls, manifest, timings,
                   current_time, actual_duration, rescaled, probes>>

\* add_video: the upload of the rendered file
Upload ==
    /\ pc = "upload"
    /\ steps' = Append(steps, "upload")
    /\ \E ok \in BOOLEAN :
          IF ok THEN pc' = "done" /\ error' = error
          ELSE /\ pc' = "failed"
               /\ error' = [type |-> "UploadError", message |-> << >>]
    /\ UNCHANGED <<concurrent_vars, caller_vars, wrap_vars, batch_vars, polling_vars, pipeline, background, selected_background, transcripts, idx, audio_segments, returned,
                   tts_calls, files, manifest, timings, current_time,
                   actual_duration, rescaled, probes, compositor_vars, stderr>>

---------------------------------------------------------------------------
Next ==
    \/ QuizSelectBackground
    \/ DialogueBackground
    \/ QuizSynthLine
    \/ DialogueSynthLine
    \/ SynthReturn
    \/ QuizConcatenate
    \/ DialogueConcatenate
    \/ QuizProbeSegment
    \/ DialogueProbeSegment
    \/ QuizReconcile
    \/ DialogueReturn
    \/ QuizComposite
    \/ DialogueComposite
    \/ Upload

Spec == Init /\ [][Next]_vars

---------------------------------------------------------------------------
(* concatenate_quiz_audio_segments called directly, with the descriptors of  *)
(* a script and durations of the caller's choice                            *)

\* the pause_duration values a caller may pass: the default, a shorter pause,
\* no pause
PauseDurations == {PAUSE_DURATION, 1000, 0}

\* the options_duration values a caller may pass: the default, no display time
OptionsDurations == {OPTIONS_DURATION, 0}

\* the descriptor list generate_audio_from_quiz_transcript returns for a script
QuizSegments(script) ==
    [k \in 1..Len(script) |-> QuizDescriptor(k - 1, script[k])]

InitBuilder ==
    /\ pipeline = "quiz"
    /\ pause_duration \in PauseDurations
    /\ options_duration \in OptionsDurations
    /\ transcripts \in ScriptsOver(QuizLines) \cup {ExampleScript}
    /\ audio_segments = QuizSegments(transcripts)
    /\ files = { audio_segments[k].file : k \in 1..Len(audio_segments) } \ {None}
    /\ returned = TRUE
    /\ pc = "concat"
    /\ idx = 1
    /\ background = BackgroundFile
    /\ selected_background = BackgroundFile
    /\ tts_calls = << >>
    /\ manifest = << >>
    /\ timings = << >>
    /\ current_time = 0
    /\ actual_duration = NoValue
    /\ rescaled = FALSE
    /\ probes = << >>
    /\ steps = << >>
    /\ assets = {}
    /\ character_images = << >>
    /\ character_enables = << >>
    /\ caption_filters = << >>
    /\ filter_parts = << >>
    /\ render_inputs = << >>
    /\ stderr = ""
    /\ error = None
    /\ PollingIdle
    /\ wrap_input = << >>
    /\ wrapped_text = << >>
    /\ subtopics = << >>
    /\ variant = "list"
    /\ uploaded = << >>
    /\ results = << >>
    /\ runs = << >>
    /\ shared_files = {}

NextBuilder ==
    \/ QuizConcatenate
    \/ QuizProbeSegment
    \/ QuizReconcile

SpecBuilder == InitBuilder /\ [][NextBuilder]_vars

---------------------------------------------------------------------------
(* wrap_caption_text applied to one caption *)

\* most words in a caption drawn by InitWrap
MaxWords == 3

\* the words the captions are made of: short ones, one with a hyphen, and one
\* longer than a line
CaptionWords ==
    { <<"H", "i">>, Repeat("b", 11), Repeat("c", 16), <<"e", "e", "-", "e", "e">>,
      Repeat("d", MaxChars + 1) }

\* the captions: words joined by single spaces, a caption with leading,
\* doubled and trailing spaces, and one of spaces only
CaptionTexts ==
    { Join(ws, " ") : ws \in UNION { [1..n -> CaptionWords] : n \in 0..MaxWords } }
        \cup { <<" ", "H", "i", " ", " ", "H", "i", " ">>,
               Repeat(" ", MaxChars + 1) }

InitWrap ==
    /\ PollingIdle
    /\ wrap_input \in CaptionTexts
    /\ wrapped_text = << >>
    /\ subtopics = << >>
    /\ variant = "list"
    /\ uploaded = << >>
    /\ results = << >>
    /\ pc = "wrap"
    /\ pipeline = "quiz"
    /\ pause_duration = PAUSE_DURATION
    /\ options_duration = OPTIONS_DURATION
    /\ transcripts = << >>
    /\ audio_segments = << >>
    /\ files = {}
    /\ returned = FALSE
    /\ idx = 1
    /\ background = BackgroundFile
    /\ selected_background = BackgroundFile
    /\ tts_calls = << >>
    /\ manifest = << >>
    /\ timings = << >>
    /\ current_time = 0
    /\ actual_duration = NoValue
    /\ rescaled = FALSE
    /\ probes = << >>
    /\ steps = << >>
    /\ assets = {}
    /\ character_images = << >>
    /\ character_enables = << >>
    /\ caption_filters = << >>
    /\ filter_parts = << >>
    /\ render_inputs = << >>
    /\ stderr = ""
    /\ error = None
    /\ runs = << >>
    /\ shared_files = {}

\* wrapped_text = wrap_caption_text(timing["caption"])
WrapCaption ==
    /\ pc = "wrap"
    /\ wrapped_text' = wrap_caption_text(wrap_input)
    /\ pc' = "wrapped"
    /\ UNCHANGED <<concurrent_vars, caller_vars, batch_vars, polling_vars, wrap_input, pipeline, background,
                   selected_background, transcripts, idx, audio_segments,
                   returned, tts_calls, files, manifest, timings, current_time,
                   actual_duration, rescaled, probes, steps, compositor_vars,
                   stderr, error>>

NextWrap == WrapCaption

SpecWrap == InitWrap /\ [][NextWrap]_vars


---------------------------------------------------------------------------
(* Concurrent runs of generate_quiz_video: the audio phase of each run,    *)
(* step by step, over the files the runs share                             *)

RunIds == {1, 2}

\* the audio_dir a caller may pass: the default of the command line, or a
\* directory of its own
AudioDirs == {"assets/audio/quiz", "assets/audio/quiz_b"}

\* the scripts of the concurrent runs
RunScripts ==
    { <<ExampleScript[1]>>, <<ExampleScript[1], ExampleScript[2]>>, ExampleScript }

Absent == [absent |-> TRUE]

\* the content of the file at dir/file, or Absent
ReadFile(files_, dir, file) ==
    IF \E e \in files_ : e.dir = dir /\ e.file = file
    THEN (CHOOSE e \in files_ : e.dir = dir /\ e.file = file).content
    ELSE Absent

\* open(path, "w") / ffmpeg -y path: the file is created or replaced
WriteFile(files_, dir, file, content) ==
    { e \in files_ : ~(e.dir = dir /\ e.file = file) }
        \cup {[dir |-> dir, file |-> file, content |-> content]}

\* os.remove(path) when os.path.exists(path)
RemoveFile(files_, dir, file) ==
    { e \in files_ : ~(e.dir = dir /\ e.file = file) }

\* faulty variant, used to test the properties: every run works in the
\* default directory, whatever audio_dir its caller passed
AudioDir_Default(run) == "assets/audio/quiz"

\* audio_dir = Path(audio_dir): where the run's clips and its concatenated
\* audio are written
AudioDir(run) == run.audio_dir

\* segments_dir = os.path.dirname(audio_segments[0]["file"] or output_file):
\* clips and concatenated audio are both in the run's audio_dir
SegmentsDir(run) == AudioDir(run)

\* the descriptors the synthesizer returns for the run's script
RunSegments(run) ==
    [k \in 1..Len(run.transcripts) |-> QuizDescriptor(k - 1, run.transcripts[k])]

InitConcurrent ==
    /\ runs \in [RunIds -> [pc : {"synth"}, idx : {1}, audio_dir : AudioDirs,
                            transcripts : RunScripts, listed : {Absent},
                            audio : {Absent}]]
    /\ shared_files = {}
    /\ pipeline = "quiz"
    /\ background = BackgroundFile
    /\ selected_background = BackgroundFile
    /\ transcripts = << >>
    /\ pc = "concurrent"
    /\ idx = 1
    /\ audio_segments = << >>
    /\ returned = FALSE
    /\ tts_calls = << >>
    /\ files = {}
    /\ manifest = << >>
    /\ timings = << >>
    /\ current_time = 0
    /\ actual_duration = NoValue
    /\ rescaled = FALSE
    /\ probes = << >>
    /\ steps = << >>
    /\ assets = {}
    /\ character_images = << >>
    /\ character_enables = << >>
    /\ caption_filters = << >>
    /\ filter_parts = << >>
    /\ render_inputs = << >>
    /\ stderr = ""
    /\ error = None
    /\ pause_duration = PAUSE_DURATION
    /\ options_duration = OPTIONS_DURATION
    /\ PollingIdle
    /\ wrap_input = << >>
    /\ wrapped_text = << >>
    /\ subtopics = << >>
    /\ variant = "list"
    /\ uploaded = << >>
    /\ results = << >>

\* the variables of the single-run model, which the concurrent runs leave alone
single_run_vars ==
    <<pipeline, background, selected_background, transcripts, pc, idx,
      audio_segments, returned, tts_calls, files, manifest, timings,
      current_time, actual_duration, rescaled, probes, steps, assets,
      character_images, character_enables, caption_filters, filter_parts,
      render_inputs, stderr, error, pause_duration, options_duration, wrap_input,
      wrapped_text, subtopics, variant, uploaded, results, retry_count,
      status, status_checks, download_requests, poll_pc>>

\* one iteration of the synthesizer's loop in run r: a spoken line's clip is
\* written to audio_dir/quiz_segment_NNN.mp3
RunSynthLine(r) ==
    LET run == runs[r]
    IN  /\ run.pc = "synth"
        /\ run.idx <= Len(run.transcripts)
        /\ LET d == RunSegments(run)[run.idx]
           IN  shared_files' =
                   IF d.file = None THEN shared_files
                   ELSE WriteFile(shared_files, AudioDir(run), d.file,
                                  [clip |-> <<r, d.index>>])
        /\ runs' = [runs EXCEPT ![r].idx = @ + 1]
        /\ UNCHANGED single_run_vars

\* the synthesizer returns; the builder writes the two silence assets
RunWriteSilence(r) ==
    LET run == runs[r]
    IN  /\ run.pc = "synth"
        /\ run.idx > Len(run.transcripts)
        /\ shared_files' =
               WriteFile(WriteFile(shared_files, SegmentsDir(run), SilencePauseFile,
                                   [silence |-> PAUSE_DURATION]),
                         SegmentsDir(run), SilenceOptionsFile,
                         [silence |-> OPTIONS_DURATION])
        /\ runs' = [runs EXCEPT ![r].pc = "list"]
        /\ UNCHANGED single_run_vars

\* the builder writes quiz_filelist.txt
RunWriteList(r) ==
    LET run == runs[r]
    IN  /\ run.pc = "list"
        /\ shared_files' = WriteFile(shared_files, SegmentsDir(run), ListFile,
                                     [lines |-> QuizManifest(RunSegments(run))])
        /\ runs' = [runs EXCEPT ![r].pc = "concat"]
        /\ UNCHANGED single_run_vars

\* what ffmpeg reads for a file list: the files it names, relative to the
\* directory of the list
Concatenated(files_, dir, lines) ==
    [k \in 1..Len(lines) |-> ReadFile(files_, dir, lines[k])]

\* ffmpeg -f concat -i quiz_filelist.txt: it reads the list that is there and
\* the files that list names; it fails when the list or one of them is gone
RunConcat(r) ==
    LET run == runs[r]
        list == ReadFile(shared_files, SegmentsDir(run), ListFile)
    IN  /\ run.pc = "concat"
        /\ IF list = Absent
           THEN /\ runs' = [runs EXCEPT ![r].pc = "failed"]
                /\ UNCHANGED shared_files
           ELSE LET audio == Concatenated(shared_files, SegmentsDir(run), list.lines)
                IN  IF Absent \in Range(audio)
                    THEN /\ runs' = [runs EXCEPT ![r].pc = "failed",
                                                 ![r].listed = list]
                         /\ UNCHANGED shared_files
                    ELSE /\ runs' = [runs EXCEPT ![r].pc = "cleanup",
                                                 ![r].listed = list,
                                                 ![r].audio = [audio |-> audio]]
                         /\ shared_files' = WriteFile(shared_files, AudioDir(run),
                                                      OutputFile, [audio |-> audio])
        /\ UNCHANGED single_run_vars

\* the cleanup of the builder: the silence assets and the file list are removed
RunCleanup(r) ==
    LET run == runs[r]
    IN  /\ run.pc = "cleanup"
        /\ shared_files' =
               RemoveFile(RemoveFile(RemoveFile(shared_files, SegmentsDir(run),
                                                SilencePauseFile),
                                     SegmentsDir(run), SilenceOptionsFile),
                          SegmentsDir(run), ListFile)
        /\ runs' = [runs EXCEPT ![r].pc = "done"]
        /\ UNCHANGED single_run_vars

NextConcurrent ==
    \E r \in RunIds :
        \/ RunSynthLine(r)
        \/ RunWriteSilence(r)
        \/ RunWriteList(r)
        \/ RunConcat(r)
        \/ RunCleanup(r)

SpecConcurrent == InitConcurrent /\ [][NextConcurrent]_vars

---------------------------------------------------------------------------
(* One video per subtopic: generate_videos_from_subtopic_list and            *)
(* generate_videos_from_subtopic_list_with_collection                        *)

\* most subtopics in a batch drawn by InitSubtopics
MaxSubtopics == 2

\* safe[:64]
SlugMax == 64

\* ch.isalnum() or ch in ("-", "_"), over the characters the titles are made of
IsSafe(ch) == ch \notin {" ", "?", "!", "\n"}

\* value.strip()
Strip(value) ==
    LET kept == { i \in 1..Len(value) : ~IsSpace(value[i]) }
    IN  IF kept = {} THEN << >>
        ELSE SubSeq(value, CHOOSE i \in kept : \A j \in kept : i <= j,
                           CHOOSE i \in kept : \A j \in kept : j <= i)

\* slugify: unsafe characters become "_", the first 64 characters are kept,
\* and an empty slug becomes "subtopic"
slugify(value) ==
    LET stripped == Strip(value)
        safe == [i \in 1..Len(stripped) |->
                    IF IsSafe(stripped[i]) THEN stripped[i] ELSE "_"]
        cut  == SubSeq(safe, 1, IF Len(safe) < SlugMax THEN Len(safe) ELSE SlugMax)
    IN  IF cut = << >> THEN <<"s", "u", "b", "t", "o", "p", "i", "c">> ELSE cut

\* the subtopic titles of the batches: two that differ in one unsafe
\* character, a plain one, a blank one, and two that differ only after the
\* 64th character
SubtopicTitles ==
    { <<"A", " ", "B">>, <<"A", "_", "B">>, <<"C">>, <<" ">>,
      Repeat("x", SlugMax) \o <<"1">>, Repeat("x", SlugMax) \o <<"2">> }

\* segment_dir = audio_dir / slug / "segments"
SegmentDirOf(title) == <<slugify(title), "segments">>

\* audio_output = audio_dir / f"{slug}_full.mp3"
AudioOutputOf(title) == <<slugify(title), "_full.mp3">>

\* video_output = output_dir / f"{slug}.mp4"
VideoOutputOf(title) == <<slugify(title), ".mp4">>

\* the variables of one pipeline run at rest, while another entry point runs
IdleRun ==
    /\ pipeline = "dialogue"
    /\ pause_duration = PAUSE_DURATION
    /\ options_duration = OPTIONS_DURATION
    /\ PollingIdle
    /\ wrap_input = << >>
    /\ wrapped_text = << >>
    /\ transcripts = << >>
    /\ audio_segments = << >>
    /\ files = {}
    /\ returned = FALSE
    /\ background = BackgroundFile
    /\ selected_background = BackgroundFile
    /\ tts_calls = << >>
    /\ manifest = << >>
    /\ timings = << >>
    /\ current_time = 0
    /\ actual_duration = NoValue
    /\ rescaled = FALSE
    /\ probes = << >>
    /\ steps = << >>
    /\ assets = {}
    /\ character_images = << >>
    /\ character_enables = << >>
    /\ caption_filters = << >>
    /\ filter_parts = << >>
    /\ render_inputs = << >>
    /\ stderr = ""
    /\ runs = << >>

\* the variables the batch leaves alone
rest_vars ==
    <<pipeline, pause_duration, options_duration, wrap_input, wrapped_text,
      transcripts, audio_segments, files, returned, background,
      selected_background, tts_calls, manifest, timings, current_time,
      actual_duration, rescaled, probes, steps, assets, character_images,
      character_enables, caption_filters, filter_parts, render_inputs, stderr,
      runs>>

idle_vars == <<rest_vars, polling_vars>>

InitSubtopics ==
    /\ subtopics \in UNION { [1..n -> SubtopicTitles] : n \in 0..MaxSubtopics }
    /\ variant \in {"list", "collection"}
    /\ uploaded = << >>
    /\ results = << >>
    /\ shared_files = {}
    /\ pc = "start"
    /\ idx = 1
    /\ error = None
    /\ IdleRun

\* entry of the batch function: the function-level imports of the collection
\* variant name get_random_background_video, which generate_subtopic_videos
\* does not define; then the check for an empty list
BatchStart ==
    /\ pc = "start"
    /\ IF variant = "collection"
       THEN /\ pc' = "failed"
            /\ error' = [type |-> "ImportError", message |-> << >>]
       ELSE IF subtopics = << >>
       THEN /\ pc' = "failed"
            /\ error' = [type |-> "ValueError", message |-> << >>]
       ELSE /\ pc' = "synth"
            /\ error' = error
    /\ UNCHANGED <<idx, shared_files, batch_vars, idle_vars>>

\* an exception of a step of the loop body ends the batch
BatchError(type) ==
    /\ pc' = "failed"
    /\ error' = [type |-> type, message |-> << >>]
    /\ UNCHANGED <<idx, shared_files, batch_vars>>

\* generate_audio_from_transcript(transcripts_payload, output_dir=segment_dir)
SubtopicSynth ==
    /\ pc = "synth"
    /\ \E ok \in BOOLEAN :
          IF ok
          THEN /\ shared_files' = WriteFile(shared_files, "audio_dir",
                                            SegmentDirOf(subtopics[idx]),
                                            [kind |-> "clips", of |-> idx])
               /\ pc' = "concat"
               /\ UNCHANGED <<idx, error, batch_vars>>
          ELSE BatchError("ApiError")
    /\ UNCHANGED idle_vars

\* concatenate_audio_segments(audio_segments, output_file=audio_output)
SubtopicConcat ==
    /\ pc = "concat"
    /\ \E ok \in BOOLEAN :
          IF ok
          THEN /\ shared_files' =
                    WriteFile(shared_files, "audio_dir", AudioOutputOf(subtopics[idx]),
                              [kind |-> "audio",
                               of |-> ReadFile(shared_files, "audio_dir",
                                               SegmentDirOf(subtopics[idx])).of])
               /\ pc' = "render"
               /\ UNCHANGED <<idx, error, batch_vars>>
          ELSE BatchError("Exception")
    /\ UNCHANGED idle_vars

\* create_video_with_audio_and_captions(..., output_file=video_output)
SubtopicRender ==
    /\ pc = "render"
    /\ \E ok \in BOOLEAN :
          IF ok
          THEN /\ shared_files' =
                    WriteFile(shared_files, "output_dir", VideoOutputOf(subtopics[idx]),
                              [kind |-> "video",
                               of |-> ReadFile(shared_files, "audio_dir",
                                               AudioOutputOf(subtopics[idx])).of])
               /\ pc' = "upload"
               /\ UNCHANGED <<idx, error, batch_vars>>
          ELSE BatchError("Exception")
    /\ UNCHANGED idle_vars

\* faulty variant, used to test the properties: the upload of every
\* subtopic sends the first subtopic's file
UploadedFile_First(index) == VideoOutputOf(subtopics[1])

\* with video_output.open("rb") as f: the file add_video is given
UploadedFile(index) == VideoOutputOf(subtopics[index])

\* add_video(...) for the subtopic, then the next iteration or return results;
\* nothing is appended to results
SubtopicUpload ==
    /\ pc = "upload"
    /\ \E ok \in BOOLEAN :
          IF ok
          THEN /\ uploaded' =
                    Append(uploaded,
                           [title |-> subtopics[idx],
                            index |-> idx,
                            content |-> ReadFile(shared_files, "output_dir",
                                                 UploadedFile(idx))])
               /\ idx' = idx + 1
               /\ pc' = IF idx = Len(subtopics) THEN "done" ELSE "synth"
               /\ UNCHANGED <<shared_files, error, subtopics, variant, results>>
          ELSE BatchError("UploadError")
    /\ UNCHANGED idle_vars

NextSubtopics ==
    \/ BatchStart
    \/ SubtopicSynth
    \/ SubtopicConcat
    \/ SubtopicRender
    \/ SubtopicUpload

SpecSubtopics == InitSubtopics /\ [][NextSubtopics]_vars

---------------------------------------------------------------------------
(* extract_audio_from_youtube *)

\* the variables the download leaves alone
other_vars == <<rest_vars, batch_vars, pc, idx, error, shared_files>>

InitPolling ==
    /\ IdleRun
    /\ subtopics = << >>
    /\ variant = "list"
    /\ uploaded = << >>
    /\ results = << >>
    /\ shared_files = {}
    /\ pc = "start"
    /\ idx = 1
    /\ error = None

\* POST /start; a response without "uid" raises ValueError before the loop;
\* otherwise max_retries and retry_count = 0 are set and the loop is entered
StartDownload ==
    /\ poll_pc = "start"
    /\ \E has_uid \in BOOLEAN :
          poll_pc' = IF has_uid THEN "polling" ELSE "start_failed"
    /\ retry_count' = 0
    /\ UNCHANGED <<status, status_checks, download_requests, other_vars>>

\* one iteration of the while loop up to its branch: sleep, GET /status/{uid},
\* then the download branch, the ValueError, or retry_count += 1
CheckStatus ==
    /\ poll_pc = "polling"
    /\ LoopCondition(retry_count)
    /\ \E s \in Statuses :
          /\ status' = s
          /\ status_checks' = status_checks + 1
          /\ IF s \in ReadyStatuses
             THEN /\ poll_pc' = "downloading"
                  /\ retry_count' = retry_count
             ELSE IF s \in FailedStatuses
             THEN /\ poll_pc' = "ValueError"
                  /\ retry_count' = retry_count
             ELSE /\ poll_pc' = "polling"
                  /\ retry_count' = retry_count + 1
    /\ UNCHANGED <<download_requests, other_vars>>

\* GET /download/{uid}; return audio_bytes
Download ==
    /\ poll_pc = "downloading"
    /\ download_requests' = download_requests + 1
    /\ poll_pc' = "returned"
    /\ UNCHANGED <<retry_count, status, status_checks, other_vars>>

\* the loop condition is false: raise TimeoutError
PollTimeout ==
    /\ poll_pc = "polling"
    /\ ~LoopCondition(retry_count)
    /\ poll_pc' = "TimeoutError"
    /\ UNCHANGED <<retry_count, status, status_checks, download_requests, other_vars>>

NextPolling ==
    \/ StartDownload
    \/ CheckStatus
    \/ Download
    \/ PollTimeout

\* every request returns, so the function always takes its next step
SpecPolling == InitPolling /\ [][NextPolling]_vars /\ WF_vars(NextPolling)

---------------------------------------------------------------------------
(* Properties *)

\* the timeline builder has returned its result to the pipeline
TimelineReturned == pc \in {"composite", "upload", "done"} \/ "compositing" \in Range(steps)

\* the timing loop has run over every descriptor and no rescaling has happened
TimelineComputed ==
    \/ pc = "probe" /\ idx > Len(audio_segments)
    \/ TimelineReturned /\ ~rescaled

\* the sum of the interval durations, accumulated left to right in floats
RECURSIVE FSum(_, _)
FSum(seq, acc) ==
    IF seq = << >> THEN acc ELSE FSum(Tail(seq), FAdd(acc, Head(seq).duration))

\* the clip of timing t is a placeholder
IsPlaceholder(t) == Get(t, "is_pause", FALSE) \/ Get(t, "is_options", FALSE)

\* C1: every timeline of either builder, rescaled or not, with or without
\* skipped clips, starts at 0 and each interval ends where the next starts.
C1_Contiguity ==
    /\ timings # << >> => timings[1].start = 0
    /\ \A i \in 1..(Len(timings) - 1) : timings[i].end = timings[i + 1].start

C1_Witness ==
    /\ TimelineReturned
    /\ rescaled
    /\ Len(timings) >= 2
    /\ Len(timings) < Len(audio_segments)

\* C2 as stated: in both branches the returned total_duration equals the sum
\* of the interval durations and the end of the last interval.
C2_Original ==
    (pipeline = "quiz" /\ TimelineReturned) =>
        /\ current_time = FSum(timings, 0)
        /\ timings # << >> => current_time = Last(timings).end

\* x and y differ by at most k roundings of a value of the size of y
Within(x, y, k) ==
    Abs(x - y) * Pow10(Precision - 1) <= k * (y + Pow10(Precision - 1))

\* C2 amended: without rescaling total_duration equals the float sum of the
\* durations and the last interval's end; after rescaling it equals the probed
\* duration of the concatenated file, which the last end and the sum of the
\* scaled durations match only up to the rounding of the float operations.
C2_Additivity ==
    (pipeline = "quiz" /\ TimelineReturned) =>
        /\ ~rescaled =>
              /\ current_time = FSum(timings, 0)
              /\ timings # << >> => current_time = Last(timings).end
        /\ rescaled =>
              /\ current_time = actual_duration
              /\ timings # << >>
              /\ Within(Last(timings).end, current_time, 2)
              /\ Within(FSum(timings, 0), current_time, Len(timings) + 2)

C2_Witness ==
    /\ pipeline = "quiz"
    /\ TimelineReturned
    /\ rescaled
    /\ Len(timings) >= 2
    /\ Last(timings).end # current_time

\* C3: the quiz builder rescales iff the probed total differs from the
\* computed one by more than 0.5 s; then start, end and duration of every
\* interval are multiplied by actual/computed and the total becomes actual,
\* otherwise (a drift of exactly 0.5 s included, or no probe result) intervals
\* and total are unchanged.  Computed 10.0 and actual 10.8 scale by 1.08.
C3_Reconciliation ==
    [][ (pipeline = "quiz" /\ pc = "probe" /\ pc' = "composite") =>
          LET actual == actual_duration'
              computed == current_time
              factor == FDiv(actual, computed)
          IN  IF actual # NoValue /\ Abs(actual - computed) > 500
              THEN /\ rescaled'
                   /\ current_time' = actual
                   /\ Len(timings') = Len(timings)
                   /\ \A i \in 1..Len(timings) :
                         /\ timings'[i].start = FMul(timings[i].start, factor)
                         /\ timings'[i].end = FMul(timings[i].end, factor)
                         /\ timings'[i].duration = FMul(timings[i].duration, factor)
                   /\ (computed = 10000 /\ actual = 10800) =>
                         \A i \in 1..Len(timings) :
                            /\ timings'[i].start = FMul(timings[i].start, 1080)
                            /\ timings'[i].end = FMul(timings[i].end, 1080)
                            /\ timings'[i].duration = FMul(timings[i].duration, 1080)
              ELSE /\ ~rescaled'
                   /\ timings' = timings
                   /\ current_time' = computed ]_vars

C3_Witness ==
    /\ pipeline = "quiz"
    /\ TimelineReturned
    /\ rescaled
    /\ actual_duration = 10800
    /\ Len(timings) = 2
    /\ timings[1].end = 5400
    /\ timings[2].duration = 5400

\* the raw duration ffprobe printed for the clip with this index
RawOf(index) == (CHOOSE p \in Range(probes) : p.index = index).raw

LineIsPause(line) ==
    /\ line.caption # << >>
    /\ Head(line.caption) = "["
    /\ Last(line.caption) = "]"

\* the script line is an options display
LineIsOptions(line) == ~LineIsPause(line) /\ Get(line, "is_options", FALSE)

LineIsSpoken(line) == ~LineIsPause(line) /\ ~LineIsOptions(line)

\* every spoken line of the script has a probed clip
AllProbed ==
    \A k \in 1..Len(transcripts) :
        LineIsSpoken(transcripts[k]) => \E p \in Range(probes) : p.index = k - 1

Calls(i) == Cardinality({ n \in 1..Len(tts_calls) : tts_calls[n] = i })

\* C7: the quiz synthesizer makes no synthesis call and writes no file for a
\* pause or options line, whose descriptor has no audio source and carries the
\* matching flag; every other line of a completed synthesis got exactly one
\* call and one file.
C7_Placeholders ==
    (pipeline = "quiz" /\ pc \in {"synth", "concat"}) =>
        \A k \in 1..Len(audio_segments) :
            LET line == transcripts[k]
                d == audio_segments[k]
            IN  /\ LineIsPause(line) =>
                      /\ Calls(k - 1) = 0
                      /\ QuizSegmentFile(k - 1) \notin files
                      /\ d.file = None
                      /\ Get(d, "is_pause", FALSE)
                /\ LineIsOptions(line) =>
                      /\ Calls(k - 1) = 0
                      /\ QuizSegmentFile(k - 1) \notin files
                      /\ d.file = None
                      /\ Get(d, "is_options", FALSE)
                /\ LineIsSpoken(line) =>
                      /\ Calls(k - 1) = 1
                      /\ d.file = QuizSegmentFile(k - 1)
                      /\ d.file \in files
                      /\ ~Get(d, "is_pause", FALSE)
                      /\ ~Get(d, "is_options", FALSE)

C7_Witness ==
    /\ pipeline = "quiz"
    /\ pc = "concat"
    /\ \E a, b, c \in 1..Len(transcripts) :
          /\ LineIsPause(transcripts[a])
          /\ LineIsOptions(transcripts[b])
          /\ LineIsSpoken(transcripts[c])
    /\ Len(tts_calls) = 2
    /\ Cardinality(files) = 2

\* the speech synthesis failed on the line being synthesized
SynthesisFailed ==
    pc = "failed" /\ ~returned /\ error = [type |-> "ApiError", message |-> << >>]

\* C8: after a synthesis failure on line i there is no further synthesis call
\* (no retry of i, no later line), no descriptor list is returned, and
\* concatenation, rendering and upload never start.
C8_SynthesisFailure ==
    /\ [](SynthesisFailed =>
            /\ tts_calls # << >>
            /\ Last(tts_calls) = Len(audio_segments)
            /\ \A i \in Range(tts_calls) : Calls(i) = 1
            /\ steps = <<"synthesis">>
            /\ manifest = << >>
            /\ caption_filters = << >>
            /\ files \cap {ListFile, OutputFile, VideoFile} = {})
    /\ [][~SynthesisFailed]_vars
    /\ [][~returned => (Len(tts_calls') > Len(tts_calls) =>
                           Last(tts_calls') = Len(audio_segments))]_vars

C8_Witness ==
    /\ SynthesisFailed
    /\ Len(tts_calls) = 2
    /\ Len(audio_segments) = 2
    /\ Len(transcripts) = 4

\* the compositor has built its overlay windows and caption filters
FiltersBuilt == pc \in {"upload", "done"}

\* the caption filters drawn for the interval at position i of the timeline
FiltersOf(i) ==
    { j \in 1..Len(caption_filters) :
         /\ caption_filters[j].start = timings[i].start
         /\ caption_filters[j].end = timings[i].end
         /\ caption_filters[j].caption = timings[i].caption }

\* C9: the quiz compositor builds no caption filter for a pause interval and
\* exactly one for every other interval, options intervals included, in
\* timeline order.
C9_CaptionFilters ==
    (pipeline = "quiz" /\ FiltersBuilt) =>
        /\ \A i \in 1..Len(timings) :
              IF timings[i].is_pause
              THEN \A j \in 1..Len(caption_filters) :
                      caption_filters[j].start # timings[i].start
              ELSE Cardinality(FiltersOf(i)) = 1
        /\ Len(caption_filters) =
              Cardinality({ i \in 1..Len(timings) : ~timings[i].is_pause })
        /\ \A j \in 1..(Len(caption_filters) - 1) :
              caption_filters[j].start < caption_filters[j + 1].start

C9_Witness ==
    /\ pipeline = "quiz"
    /\ FiltersBuilt
    /\ Len(timings) = 4
    /\ ~IsPlaceholder(timings[1])
    /\ timings[2].is_pause
    /\ ~IsPlaceholder(timings[3])
    /\ timings[4].is_options
    /\ Len(caption_filters) = 3

\* the overlay of the key is enabled at time t, given as twice t: ffmpeg's
\* between(t, start, end) is start <= t <= end
EnabledAt(enable, twice_t) ==
    \E n \in 1..Len(enable.windows) :
        /\ 2 * enable.windows[n].start <= twice_t
        /\ twice_t <= 2 * enable.windows[n].end

\* twice the midpoint of the interval
Mid2(t) == t.start + t.end

\* the identity key (speaker, emotion) of an interval
KeyOf(t) == <<t.speaker, t.emotion>>

\* the identity key an overlay window list was built for
EnableKey(enable) ==
    IF pipeline = "quiz" THEN <<"PETER", enable.key>> ELSE enable.key

\* C10 as stated: the overlay of a key is enabled exactly on the
\* non-placeholder intervals with that key, never during a pause or an
\* options interval (tested at the middle of every interval).
C10_Original ==
    FiltersBuilt =>
        \A e \in 1..Len(character_enables), i \in 1..Len(timings) :
            timings[i].start < timings[i].end =>
                (EnabledAt(character_enables[e], Mid2(timings[i]))
                    <=> (/\ ~IsPlaceholder(timings[i])
                         /\ KeyOf(timings[i]) = EnableKey(character_enables[e])))

\* C10 amended: strictly inside an interval, the dialogue compositor enables
\* the overlay of (speaker, emotion) iff the interval has that speaker and
\* emotion; the quiz compositor, whose key is the emotion alone, enables the
\* overlay of an emotion iff the interval has that emotion and is not a
\* pause: options intervals are included, pause intervals never.
C10_EnableWindows ==
    FiltersBuilt =>
        \A e \in 1..Len(character_enables), i \in 1..Len(timings) :
            timings[i].start < timings[i].end =>
                (EnabledAt(character_enables[e], Mid2(timings[i]))
                    <=> IF pipeline = "quiz"
                        THEN /\ ~timings[i].is_pause
                             /\ timings[i].emotion = character_enables[e].key
                        ELSE KeyOf(timings[i]) = character_enables[e].key)

C10_Witness ==
    /\ pipeline = "quiz"
    /\ FiltersBuilt
    /\ \E e \in 1..Len(character_enables), i, j, k \in 1..Len(timings) :
          /\ timings[i].is_options
          /\ EnabledAt(character_enables[e], Mid2(timings[i]))
          /\ timings[j].is_pause
          /\ timings[j].emotion = character_enables[e].key
          /\ ~EnabledAt(character_enables[e], Mid2(timings[j]))
          /\ ~IsPlaceholder(timings[k])
          /\ EnabledAt(character_enables[e], Mid2(timings[k]))

\* the caption filter is enabled at time t, given as twice t: its enable
\* option is between(t, start, end), that is start <= t <= end
CaptionEnabledAt(filter, twice_t) ==
    /\ 2 * filter.start <= twice_t
    /\ twice_t <= 2 * filter.end

\* the instants the windows are tested at, doubled: every start, every end
\* and every midpoint of the timeline
TestTimes ==
    UNION { {2 * timings[i].start, Mid2(timings[i]), 2 * timings[i].end} :
               i \in 1..Len(timings) }

\* C11 as stated: the caption of an interval is enabled iff start <= t < end,
\* so at most one caption is enabled at any time, the boundary between two
\* consecutive intervals included.
C11_Original ==
    FiltersBuilt =>
        \A tt \in TestTimes :
            /\ \A j \in 1..Len(caption_filters) :
                  CaptionEnabledAt(caption_filters[j], tt)
                      <=> (/\ 2 * caption_filters[j].start <= tt
                           /\ tt < 2 * caption_filters[j].end)
            /\ Cardinality({ j \in 1..Len(caption_filters) :
                                CaptionEnabledAt(caption_filters[j], tt) }) <= 1

\* the render command has been built and run
RenderRun == render_inputs # << >>

\* the image get_peter_image / get_character_image names for the key of an
\* entry of the image dict, and the neutral image of the same speaker
ExactImage(key) ==
    IF pipeline = "quiz" THEN get_peter_image(key)
    ELSE get_character_image(key[1], key[2])

NeutralImage(key) ==
    IF pipeline = "quiz" THEN get_peter_image("neutral")
    ELSE get_character_image(key[1], "neutral")

\* the filters of the graph of the given kind built for the key
FiltersFor(kind, key) ==
    { n \in 1..Len(filter_parts) :
         filter_parts[n].kind = kind /\ filter_parts[n].key = key }

\* the image inputs of the render command: all but background and audio
ImageInputs == SubSeq(render_inputs, 3, Len(render_inputs))

\* C12: for every key the compositor takes the exact image when it exists,
\* else the speaker's neutral image when that exists, else no image; a key
\* without image gets no image input, no scale filter and no overlay filter,
\* a key with an image gets one of each; and whatever images exist, once the
\* audio file is there and its probe succeeds the render command is built and
\* run, so no failure of the compositor comes from a missing image.
C12_AssetResolution ==
    /\ \A n \in 1..Len(character_images) :
          LET key == character_images[n].key
              image == character_images[n].image
          IN  /\ image = IF ExactImage(key) \in assets THEN ExactImage(key)
                         ELSE IF NeutralImage(key) \in assets THEN NeutralImage(key)
                         ELSE None
              /\ RenderRun =>
                    IF image = None
                    THEN /\ FiltersFor("scale", key) = {}
                         /\ FiltersFor("overlay", key) = {}
                    ELSE /\ Cardinality(FiltersFor("scale", key)) = 1
                         /\ Cardinality(FiltersFor("overlay", key)) <= 1
                         /\ image \in Range(ImageInputs)
    /\ RenderRun =>
          /\ Len(ImageInputs) = Len(WithImage(character_images))
          /\ None \notin Range(ImageInputs)
    /\ ("compositing" \in Range(steps) /\ ~RenderRun) =>
          /\ pc = "failed"
          /\ \/ error.type = "FileNotFoundError" /\ OutputFile \notin files
             \/ error.message[1] = "Failed to get audio duration: "

C12_Witness ==
    /\ pipeline = "dialogue"
    /\ pc = "upload"
    /\ \E a, b \in 1..Len(character_images) :
          /\ character_images[a].image = None
          /\ character_images[b].image = NeutralImage(character_images[b].key)
          /\ character_images[b].image # ExactImage(character_images[b].key)
    /\ Len(render_inputs) = 3

\* the number of descriptors the timing loop has gone over
Processed ==
    IF pc = "probe" THEN idx - 1
    ELSE IF TimelineReturned \/ (steps # << >> /\ Last(steps) = "reconciliation")
    THEN Len(audio_segments)
    ELSE 0

\* the clip of the descriptor is a silence placeholder, or its file was there
\* and its probe printed a duration
Usable(segment) ==
    \/ pipeline = "quiz" /\ IsPlaceholder(segment)
    \/ \E p \in Range(probes) : p.index = segment.index

\* C13: in both timeline builders a clip whose file is missing or whose probe
\* fails gets no interval and adds nothing to the accumulated time; every
\* other clip gets its interval, in order; the timing loop itself never
\* raises, and a build that has at least one interval returns.
C13_SkippedClips ==
    /\ \A n \in 1..(Len(timings) - 1) : timings[n].index < timings[n + 1].index
    /\ \A k \in 1..Processed :
          Cardinality({ n \in 1..Len(timings) :
                           timings[n].index = audio_segments[k].index })
              = IF Usable(audio_segments[k]) THEN 1 ELSE 0
    /\ Len(timings) <= Processed
    /\ ~rescaled => current_time = FSum(timings, 0)
    /\ (pc = "failed" /\ steps # << >> /\ Last(steps) = "concatenation") =>
          idx = 1 /\ timings = << >>
    /\ (pc = "failed" /\ steps # << >> /\ Last(steps) = "reconciliation") =>
          timings = << >>

C13_Witness ==
    /\ pipeline = "quiz"
    /\ pc = "upload"
    /\ transcripts = ExampleScript
    /\ audio_segments[1].file \notin files
    /\ audio_segments[3].file \in files
    /\ [n \in 1..Len(timings) |-> timings[n].index] = <<1, 3>>
    /\ timings[1].start = 0
    /\ current_time = 7000

\* C14 as stated: a timeline builder never returns a timeline without
\* intervals; when no clip yields an interval the run ends in an error and
\* compositing never starts.
C14_Original ==
    /\ TimelineReturned => timings # << >>
    /\ (steps # << >> /\ Last(steps) \in {"concatenation", "reconciliation"}
           /\ pc # "probe" /\ timings = << >>) => pc = "failed"

\* the concatenation tool exited non-zero and the builder raised
ConcatFailed ==
    /\ pc = "failed"
    /\ steps # << >> /\ Last(steps) = "concatenation"
    /\ error.type = "Exception"

\* C15: when the concatenation tool exits non-zero, either builder raises an
\* error whose message contains the tool's stderr output; no timeline is
\* returned and no clip probe, final probe or rescaling happens afterwards:
\* the run has stopped.
C15_ConcatFailure ==
    /\ [](ConcatFailed =>
            /\ stderr \in Diagnostics
            /\ \E n \in 1..Len(error.message) : error.message[n] = stderr
            /\ ~TimelineReturned
            /\ timings = << >>
            /\ probes = << >>
            /\ actual_duration = NoValue
            /\ ~rescaled)
    /\ [][~ConcatFailed]_vars

C15_Witness ==
    /\ ConcatFailed
    /\ pipeline = "quiz"
    /\ Len(audio_segments) = 4
    /\ stderr = "Invalid data found"
    /\ ListFile \in files

\* the render tool exited non-zero and the compositor raised
RenderFailed ==
    /\ pc = "failed"
    /\ RenderRun
    /\ error.message = RenderErrorMessage

\* C16 as stated: after a failed render no file exists at output_file.
C16_Original == RenderFailed => VideoFile \notin files

\* the clip files the timing loop found in place
ClipsFound == { audio_segments[k].file : k \in 1..Len(audio_segments) } \cap
              { f \in files : f.kind \in {"segment", "quiz_segment"} }

\* C17 as stated: once a timeline builder has returned, the silence assets and
\* the file-list manifest are gone, while the concatenated audio file and the
\* clip files are still there.
C17_Original ==
    TimelineReturned =>
        /\ files \cap {SilencePauseFile, SilenceOptionsFile, ListFile} = {}
        /\ OutputFile \in files
        /\ \A p \in Range(probes) :
              \E f \in ClipsFound : f.index = p.index

\* the steps of one run of generate_quiz_video, in order
StepOrder ==
    <<"synthesis", "concatenation", "reconciliation", "compositing", "upload">>

\* the step that has just been started found its predecessor completed
PredecessorCompleted(step) ==
    CASE step = "synthesis" -> selected_background' # None
      [] step = "concatenation" -> returned /\ Len(audio_segments) = Len(transcripts)
      [] step = "reconciliation" -> /\ OutputFile \in files
                                    /\ idx > Len(audio_segments)
      [] step = "compositing" -> pc = "composite"
      [] step = "upload" -> pc = "upload" /\ VideoFile \in files
      [] OTHER -> FALSE

\* C18: in a run of generate_quiz_video the steps start in the order
\* synthesis, concatenation, reconciliation, compositing, upload, none twice;
\* a step starts only when no error has been raised and the step before it
\* has completed; a failed run takes no further step, so nothing is started
\* (in particular no upload) after a failure.
C18_StepOrder ==
    /\ [](pipeline = "quiz" =>
            /\ Len(steps) <= Len(StepOrder)
            /\ steps = SubSeq(StepOrder, 1, Len(steps))
            /\ (pc = "failed") = (error # None)
            /\ pc = "done" => steps = StepOrder)
    /\ [][(pipeline = "quiz" /\ steps' # steps) =>
            /\ error = None
            /\ pc # "failed"
            /\ Len(steps') = Len(steps) + 1
            /\ PredecessorCompleted(Last(steps'))]_vars
    /\ [][pipeline = "quiz" => pc # "failed" /\ pc # "done"]_vars

C18_Witness ==
    /\ pipeline = "quiz"
    /\ pc = "done"
    /\ steps = StepOrder
    /\ Len(timings) = 4
    /\ rescaled

\* C19 as stated: in every entry point the background handed to the renderer
\* is a single video file: one of the directory's videos when the caller gave
\* a directory, the given file when the caller gave a file; a directory
\* without videos ends the run before any synthesis.
C19_Original ==
    /\ RenderRun =>
          /\ render_inputs[1].kind = "file"
          /\ background.kind = "dir" =>
                render_inputs[1] \in get_random_background_video(background)
          /\ background.kind = "file" => render_inputs[1] = background
    /\ (background.kind = "dir" /\ get_random_background_video(background) = {}) =>
          /\ pc \in {"start", "failed"}
          /\ steps = << >>
          /\ tts_calls = << >>

\* what run r itself writes to the file a line of its file list names
OwnContent(r, file) ==
    IF file = SilencePauseFile THEN [silence |-> PAUSE_DURATION]
    ELSE IF file = SilenceOptionsFile THEN [silence |-> OPTIONS_DURATION]
    ELSE [clip |-> <<r, file.index>>]

\* run r has not been disturbed: its concatenation did not fail, the file list
\* ffmpeg read was the one r wrote, and every clip it concatenated was r's own
Undisturbed(r) ==
    LET own == QuizManifest(RunSegments(runs[r]))
    IN  /\ runs[r].pc # "failed"
        /\ runs[r].listed # Absent => runs[r].listed.lines = own
        /\ runs[r].audio # Absent =>
              runs[r].audio.audio = [k \in 1..Len(own) |-> OwnContent(r, own[k])]

\* C20 as stated: whatever two concurrent runs are given, no run's writes,
\* overwrites or cleanup change what the other concatenates.
C20_Original == \A r \in DOMAIN runs : Undisturbed(r)

\* C20 amended: two concurrent runs of generate_quiz_video that were given
\* different audio_dir directories share no scratch file: each concatenates
\* the file list, the silence assets and the clips it wrote itself, and every
\* file one run wrote lies in its own directory.
C20_Isolation ==
    \A r, q \in DOMAIN runs :
        (r # q /\ runs[r].audio_dir # runs[q].audio_dir) =>
            /\ Undisturbed(r)
            /\ \A e \in shared_files :
                  e.dir = runs[r].audio_dir =>
                      /\ "clip" \in DOMAIN e.content => e.content.clip[1] = r
                      /\ "lines" \in DOMAIN e.content =>
                            e.content.lines = QuizManifest(RunSegments(runs[r]))

C20_Witness ==
    /\ DOMAIN runs = RunIds
    /\ runs[1].audio_dir # runs[2].audio_dir
    /\ runs[1].pc = "cleanup"
    /\ runs[2].pc = "done"
    /\ runs[1].transcripts = ExampleScript
    /\ Len(runs[2].transcripts) = 2
    /\ Len(runs[1].audio.audio) = 4
    /\ Len(runs[2].audio.audio) = 2

\* the interval's duration comes from an ffprobe reading of its clip
DurationProbed(t) ==
    \E p \in Range(probes) :
        /\ p.index = t.index
        /\ t.duration = (IF pipeline = "quiz" THEN PadDuration(p.raw)
                         ELSE RawDuration(p.raw))

\* C21 as stated: every interval of the timeline, placeholder intervals
\* included, has a duration that comes from a duration probe of its clip and
\* not from pause_duration or options_duration.
C21_Original ==
    TimelineComputed => \A i \in 1..Len(timings) : DurationProbed(timings[i])

\* the interval is well-formed: it starts at or after 0, ends after it starts
\* and its duration is the difference of the two
WellFormed(t) ==
    /\ t.start >= 0
    /\ t.end > t.start
    /\ t.duration = FSub(t.end, t.start)

\* C22 as stated: every interval of every returned timeline has start >= 0,
\* end > start and duration == end - start, whatever the probes report and
\* whatever pause_duration and options_duration the caller passes, also after
\* the drift rescaling.
C22_Original ==
    TimelineReturned => \A i \in 1..Len(timings) : WellFormed(timings[i])

\* the maximal runs of characters of seq that are not in seps, in order
SplitOn(seq, seps) ==
    LET starts   == { i \in 1..Len(seq) :
                        seq[i] \notin seps /\ (i = 1 \/ seq[i - 1] \in seps) }
        start(k) == CHOOSE s \in starts : Cardinality({ x \in starts : x <= s }) = k
        stop(s)  == CHOOSE e \in s..Len(seq) :
                        /\ \A j \in s..e : seq[j] \notin seps
                        /\ e = Len(seq) \/ seq[e + 1] \in seps
    IN  [k \in 1..Cardinality(starts) |-> SubSeq(seq, start(k), stop(start(k)))]

\* the lines of a wrapped caption
LinesOf(wrapped) == SplitOn(wrapped, {"\n"})

\* the words of a caption: what whitespace separates
WordsOf(caption) == SplitOn(caption, {" ", "\n"})

\* C23 as stated: for every caption, every line wrap_caption_text returns has
\* at most 32 characters and the words of the output, in order, are exactly
\* the words of the input (no word is split across lines).
C23_Original ==
    pc = "wrapped" =>
        /\ \A line \in Range(LinesOf(wrapped_text)) : Len(line) <= MaxChars
        /\ WordsOf(wrapped_text) = WordsOf(wrap_input)

\* C23 amended: for a caption with at least one visible character every line
\* has at most 32 characters; no character other than whitespace is lost,
\* added or reordered; and when every word has at most 32 characters and no
\* hyphen, the words of the output are exactly the words of the input.
C23_Wrapping ==
    pc = "wrapped" =>
        /\ ~IsBlank(wrap_input) =>
              \A line \in Range(LinesOf(wrapped_text)) : Len(line) <= MaxChars
        /\ Concat(WordsOf(wrapped_text)) = Concat(WordsOf(wrap_input))
        /\ (\A w \in Range(WordsOf(wrap_input)) :
                Len(w) <= MaxChars /\ "-" \notin Range(w))
              => WordsOf(wrapped_text) = WordsOf(wrap_input)

C23_Witness ==
    /\ pc = "wrapped"
    /\ wrap_input = Join(<<Repeat("c", 16), Repeat("c", 16), Repeat("b", 11)>>, " ")
    /\ LinesOf(wrapped_text) =
          <<Repeat("c", 16), Repeat("c", 16) \o <<" ">> \o Repeat("b", 11)>>

\* the scale filters of the graph, by position in filter_parts
ScaleFilterPositions == { n \in 1..Len(filter_parts) : filter_parts[n].kind = "scale" }

\* C24: in the render command of either compositor input 0 is the background
\* and input 1 the audio; every scale filter reads a video input [n:v] with
\* n >= 2 whose -i argument is the image resolved for the filter's key; and
\* every image input is read by exactly one scale filter, whatever keys lack
\* an image.
C24_InputNumbering ==
    RenderRun =>
        /\ render_inputs[1] = selected_background
        /\ render_inputs[2] = OutputFile
        /\ filter_parts[1].ins = <<InputStream(0)>>
        /\ \A n \in ScaleFilterPositions :
              LET m == filter_parts[n].ins[1].n
              IN  /\ filter_parts[n].ins[1].label = "input"
                  /\ m >= 2
                  /\ m + 1 <= Len(render_inputs)
                  /\ \E e \in Range(character_images) :
                        /\ e.key = filter_parts[n].key
                        /\ e.image # None
                        /\ e.image = render_inputs[m + 1]
        /\ \A m \in 2..(Len(render_inputs) - 1) :
              Cardinality({ n \in ScaleFilterPositions :
                              filter_parts[n].ins = <<InputStream(m)>> }) = 1
        /\ \A n \in 1..Len(filter_parts) :
              InputStream(1) \notin Range(filter_parts[n].ins)

C24_Witness ==
    /\ RenderRun
    /\ \E a, b \in 1..Len(character_images) :
          /\ a < b
          /\ character_images[a].image = None
          /\ character_images[b].image # None
    /\ Len(render_inputs) = 3
    /\ \E n \in ScaleFilterPositions : filter_parts[n].ins = <<InputStream(2)>>

\* the filters after filter n that read the stream filter n writes
Consumers(n) ==
    { m \in (n + 1)..Len(filter_parts) :
         filter_parts[n].out \in Range(filter_parts[m].ins) }

\* C25 as stated: whatever speakers appear in the timeline, every labelled
\* stream the dialogue compositor creates is created once and read by exactly
\* one later filter, every overlay's position depends on its speaker alone,
\* and the graph ends in the single output [v].
C25_Original ==
    (RenderRun /\ pipeline = "dialogue") =>
        /\ \A n \in 1..(Len(filter_parts) - 1) :
              /\ Cardinality(Consumers(n)) = 1
              /\ \A m \in 1..Len(filter_parts) :
                    filter_parts[m].out = filter_parts[n].out => m = n
        /\ Last(filter_parts).out = Stream("v")
        /\ \A n, m \in 1..Len(filter_parts) :
              (/\ filter_parts[n].kind = "overlay"
               /\ filter_parts[m].kind = "overlay"
               /\ filter_parts[n].key[1] = filter_parts[m].key[1])
                  => filter_parts[n].position = filter_parts[m].position

\* the file the concatenation plays for the clip of interval t
EntryOf(t) ==
    IF pipeline = "quiz"
    THEN IF Get(t, "is_pause", FALSE) THEN SilencePauseFile
         ELSE IF Get(t, "is_options", FALSE) THEN SilenceOptionsFile
         ELSE QuizSegmentFile(t.index)
    ELSE SegmentFile(t.index, t.speaker)

\* the file list has been written and the concatenation has succeeded
ConcatSucceeded == pc = "probe" \/ TimelineReturned

\* C26 as stated: the timeline has exactly one interval per line of the file
\* list, in the same order, and each interval starts at the sum of the
\* durations of the intervals before it.
C26_Original ==
    (ConcatSucceeded /\ TimelineComputed) =>
        /\ Len(timings) = Len(manifest)
        /\ \A i \in 1..Len(timings) :
              /\ EntryOf(timings[i]) = manifest[i]
              /\ timings[i].start = FSum(SubSeq(timings, 1, i - 1), 0)

\* C26 amended: every interval belongs to one line of the file list, the
\* line at the position of its clip, and the intervals follow the order of
\* the file list; a line whose clip is missing or cannot be probed when the
\* timing loop reaches it has no interval, so the timeline has one interval
\* per line only when no clip was skipped; placeholders are never skipped;
\* before any rescaling each interval starts at the sum of the durations of
\* the intervals before it.
C26_Alignment ==
    ConcatSucceeded =>
        /\ Len(timings) <= Len(manifest)
        /\ \A i \in 1..Len(timings) :
              /\ timings[i].index + 1 \in 1..Len(manifest)
              /\ manifest[timings[i].index + 1] = EntryOf(timings[i])
              /\ ~rescaled => timings[i].start = FSum(SubSeq(timings, 1, i - 1), 0)
        /\ \A i, j \in 1..Len(timings) :
              i < j => timings[i].index < timings[j].index
        /\ Len(timings) = Len(manifest) =>
              \A i \in 1..Len(timings) : EntryOf(timings[i]) = manifest[i]
        /\ TimelineComputed =>
              \A k \in 1..Len(manifest) :
                  manifest[k] \in {SilencePauseFile, SilenceOptionsFile} =>
                      \E i \in 1..Len(timings) : timings[i].index = k - 1

C26_Witness ==
    /\ pipeline = "quiz"
    /\ pc = "composite"
    /\ ~rescaled
    /\ Len(manifest) = 4
    /\ Len(timings) = 4
    /\ manifest[2] = SilencePauseFile
    /\ manifest[4] = SilenceOptionsFile
    /\ timings[3].start = FSum(SubSeq(timings, 1, 2), 0)
    /\ timings[3].start > 0

\* the quiz builder has returned and its probe of the concatenated file
\* succeeded
FinalProbeSucceeded ==
    pipeline = "quiz" /\ TimelineReturned /\ actual_duration # NoValue

\* C27: whenever the probe of the concatenated file succeeds, the
\* total_duration the quiz builder returns is within 0.5 s of the measured
\* duration, and no interval, caption window or overlay window ends more than
\* 0.5 s after the measured end of the audio.
C27_DriftBound ==
    FinalProbeSucceeded =>
        /\ Abs(current_time - actual_duration) <= DRIFT_TOLERANCE
        /\ rescaled => current_time = actual_duration
        /\ \A i \in 1..Len(timings) :
              timings[i].end <= actual_duration + DRIFT_TOLERANCE
        /\ \A i \in 1..Len(caption_filters) :
              caption_filters[i].end <= actual_duration + DRIFT_TOLERANCE
        /\ \A k \in 1..Len(character_enables) :
              \A n \in 1..Len(character_enables[k].windows) :
                  character_enables[k].windows[n].end
                      <= actual_duration + DRIFT_TOLERANCE

C27_Witness ==
    /\ FinalProbeSucceeded
    /\ RenderRun
    /\ ~rescaled
    /\ actual_duration = current_time - DRIFT_TOLERANCE
    /\ caption_filters # << >>
    /\ Last(caption_filters).end = actual_duration + DRIFT_TOLERANCE
    /\ \E k \in 1..Len(character_enables) : character_enables[k].windows # << >>

\* C28 as stated: when the batch function completes for n subtopics it has
\* uploaded n videos and returns n results, one per subtopic in input order.
C28_Original ==
    pc = "done" =>
        /\ Len(uploaded) = Len(subtopics)
        /\ Len(results) = Len(subtopics)
        /\ \A i \in 1..Len(results) : results[i].subtopic_title = subtopics[i]

\* the three paths of the subtopic with this title
PathsOf(title) == {SegmentDirOf(title), AudioOutputOf(title), VideoOutputOf(title)}

\* C29 as stated: two subtopics of one batch with different titles use
\* different segment directories, audio paths and video paths, and every
\* upload sends the video rendered for its own subtopic.
C29_Original ==
    pc # "start" =>
        /\ \A i, j \in 1..Len(subtopics) :
              subtopics[i] # subtopics[j] =>
                  PathsOf(subtopics[i]) \cap PathsOf(subtopics[j]) = {}
        /\ \A k \in 1..Len(uploaded) :
              uploaded[k].content = [kind |-> "video", of |-> k]

\* C29 amended: two subtopics whose titles give different slugs use different
\* paths; each subtopic is synthesized, concatenated, rendered and uploaded
\* before the next one starts, so every upload sends the video rendered from
\* its own subtopic's audio, also when two titles share a slug and the later
\* subtopic then overwrites the files of the earlier one.
C29_Paths ==
    /\ \A i, j \in 1..Len(subtopics) :
          slugify(subtopics[i]) # slugify(subtopics[j]) =>
              PathsOf(subtopics[i]) \cap PathsOf(subtopics[j]) = {}
    /\ \A k \in 1..Len(uploaded) :
          /\ uploaded[k].index = k
          /\ uploaded[k].title = subtopics[k]
          /\ uploaded[k].content = [kind |-> "video", of |-> k]
    /\ Len(uploaded) = idx - 1
    /\ \A e \in shared_files :
          /\ e.content.of <= idx
          /\ e.file \in PathsOf(subtopics[e.content.of])
          /\ \A j \in (e.content.of + 1)..(idx - 1) :
                e.file \notin PathsOf(subtopics[j])

C29_Witness ==
    /\ pc = "done"
    /\ Len(subtopics) = 2
    /\ subtopics[1] # subtopics[2]
    /\ slugify(subtopics[1]) = slugify(subtopics[2])
    /\ Len(uploaded) = 2
    /\ uploaded[1].content = [kind |-> "video", of |-> 1]
    /\ uploaded[2].content = [kind |-> "video", of |-> 2]
    /\ Cardinality(shared_files) = 3

\* extract_audio_from_youtube has ended, by return or by exception
PollingEnded == poll_pc \in {"returned", "ValueError", "TimeoutError", "start_failed"}

\* what holds at every point of the polling loop
PollingBounded ==
    /\ status_checks <= max_retries
    /\ download_requests <= 1
    /\ poll_pc = "polling" =>
          /\ retry_count = status_checks
          /\ status_checks > 0 => status \notin ReadyStatuses \cup FailedStatuses
    /\ poll_pc = "downloading" =>
          /\ status \in ReadyStatuses
          /\ status_checks = retry_count + 1
          /\ download_requests = 0
    /\ poll_pc = "returned" =>
          /\ status \in ReadyStatuses
          /\ status_checks = retry_count + 1
          /\ download_requests = 1
    /\ poll_pc = "ValueError" =>
          /\ status \in FailedStatuses
          /\ status_checks = retry_count + 1
          /\ download_requests = 0
    /\ poll_pc = "TimeoutError" =>
          /\ status_checks = max_retries
          /\ retry_count = max_retries
          /\ status \notin ReadyStatuses \cup FailedStatuses
          /\ download_requests = 0

\* C30: provided each request returns, the polling loop ends after at most 60
\* status checks: with the downloaded bytes as soon as a check reports READY or
\* DONE, with ValueError as soon as one reports YOUTUBE-ERROR or CANCELED, with
\* TimeoutError once 60 checks reported anything else; at most one download
\* request is issued.
C30_PollingTerminates == []PollingBounded /\ <>PollingEnded

C30_Witness ==
    /\ poll_pc = "returned"
    /\ status = "DONE"
    /\ status_checks = max_retries
    /\ download_requests = 1

===========================================================================
